---------------------------- MODULE Spec2Model ----------------------------
(***************************************************************************)
(* PunchCards: the task-card forms of src/pages (bug_fix, feature_request, *)
(* feature_change, documentation, testing, security_audit, cleanup) and    *)
(* the earlier bug_fix form of src/unnamed/part_001.                       *)
(*                                                                         *)
(* Each page is a React component holding formData, xmlOutput, copied and  *)
(* advancedSections; its handlers are the actions below.  generateXML is a *)
(* template literal: it is transliterated here interpolation by            *)
(* interpolation.                                                          *)
(*                                                                         *)
(* Strings.  A JavaScript string is modelled as a sequence of atoms.  Text *)
(* typed by the user is a sequence of one-character atoms.  A string       *)
(* literal of the source (a run of the template, a fallback, a label) is   *)
(* one atom, and the template literal is cut at every tag so that a tag is *)
(* an atom of its own.  Concatenation is \o, the empty string is << >>.    *)
(* Equal atom sequences are equal strings.                                 *)
(***************************************************************************)
EXTENDS Integers, Sequences, FiniteSets, TLC

VARIABLES
  page,              \* which form is mounted (one component instance per run)
  formData,          \* useState(defaultFormData)
  xmlOutput,         \* useState('')
  copied,            \* useState(false)
  advancedSections,  \* useState({...: false})
  clipboard,         \* the system clipboard: the text last written, << >> before
  pendingWrites,     \* navigator.clipboard.writeText promises not yet settled
  timers,            \* number of setTimeout(() => setCopied(false), 2000) pending
  recorded,          \* history: one earlier generate (its input and card), or << >>
  generatedFrom,     \* history: the formData the card on display was generated from
  downloaded,        \* the file last saved by a download, << >> before
  title,             \* argument of sanitizeFilename (function specification)
  sanitized          \* << >>, or <<r>> once r = sanitizeFilename(title) is computed

vars == <<page, formData, xmlOutput, copied, advancedSections, clipboard,
          pendingWrites, timers, recorded, generatedFrom, downloaded, title, sanitized>>

pageVars == <<page, formData, xmlOutput, copied, advancedSections, clipboard,
              pendingWrites, timers, recorded, generatedFrom, downloaded>>

---------------------------------------------------------------------------
(* JavaScript primitives used by the templates *)

\* `${n}` for a non-negative integer: its decimal digits
DigitChar(d) == <<"0", "1", "2", "3", "4", "5", "6", "7", "8", "9">>[d + 1]

RECURSIVE NumStr(_)
NumStr(n) == IF n < 10 THEN <<DigitChar(n)>> ELSE NumStr(n \div 10) \o <<DigitChar(n % 10)>>

\* Mutant of Or: the fallback also replaces a value that is blank after trimming.
OrTrimmed(a, b) == IF \A i \in 1..Len(a) : a[i] \in {" ", "\t"} THEN b ELSE a

\* Mutant of Or: the fallback is never applied, as a ?? b on strings.
OrNullish(a, b) == a

\* a || b on strings: '' is the only falsy string
Or(a, b) == IF a = << >> THEN b ELSE a

\* Mutant of Cond: the branches are exchanged.
CondExchanged(c, t, e) == IF c THEN e ELSE t

\* c ? t : e
Cond(c, t, e) == IF c THEN t ELSE e

\* Mutant of LabelAt: the table indexed by val instead of val - 1.
LabelAtOffByOne(labels, val) ==
  IF val \in 0..(Len(labels) - 1) THEN <<labels[val + 1]>> ELSE <<"undefined">>

\* labels[val - 1] of a JavaScript array (index 0 first); a miss is undefined,
\* which a template literal prints as the text undefined
LabelAt(labels, val) ==
  IF (val - 1) \in 0..(Len(labels) - 1) THEN <<labels[(val - 1) + 1]>> ELSE <<"undefined">>

---------------------------------------------------------------------------
(* sanitizeFilename: title.toLowerCase().replace(/[^a-z0-9\s-]/g, '')      *)
(*   .replace(/\s+/g, '_').replace(/-+/g, '_').substring(0, 50) || 'untitled' *)

UpperLetters == <<"A", "B", "C", "D", "E", "F", "G", "H", "I", "J", "K", "L", "M",
                  "N", "O", "P", "Q", "R", "S", "T", "U", "V", "W", "X", "Y", "Z">>
LowerLetters == <<"a", "b", "c", "d", "e", "f", "g", "h", "i", "j", "k", "l", "m",
                  "n", "o", "p", "q", "r", "s", "t", "u", "v", "w", "x", "y", "z">>
LowerSet == {LowerLetters[k] : k \in 1..26}
UpperSet == {UpperLetters[k] : k \in 1..26}
DigitSet == {DigitChar(d) : d \in 0..9}
\* the characters /\s/ matches, among those a single-line text input can hold
WhitespaceSet == {" ", "\t"}

\* String.prototype.toLowerCase, on the ASCII letters
toLowerCase(s) ==
  [i \in 1..Len(s) |->
     IF s[i] \in UpperSet
     THEN LowerLetters[CHOOSE k \in 1..26 : UpperLetters[k] = s[i]]
     ELSE s[i]]

\* .replace(re, rep) for a global regular expression cls+ over a character class:
\* each maximal run of characters of cls becomes one rep
replaceRuns(s, cls, rep) ==
  LET starts == [i \in 1..Len(s) |->
                   <<s[i], s[i] \in cls /\ i > 1 /\ s[i - 1] \in cls>>]
      kept == SelectSeq(starts, LAMBDA m : ~m[2])
  IN  [i \in 1..Len(kept) |-> IF kept[i][1] \in cls THEN rep ELSE kept[i][1]]

\* Mutant of stripDisallowed: the underscore is in the class of the characters
\* kept, as .replace(/[^a-z0-9_\s-]/g, '') would.
stripDisallowedKeepingUnderscore(s) ==
  SelectSeq(s, LAMBDA c : c \in LowerSet \cup DigitSet \cup WhitespaceSet \cup {"-", "_"})

\* .replace(/[^a-z0-9\s-]/g, ''): every character outside the class is deleted
stripDisallowed(s) ==
  SelectSeq(s, LAMBDA c : c \in LowerSet \cup DigitSet \cup WhitespaceSet \cup {"-"})

\* .replace(/\s+/g, '_')
collapseWhitespace(s) == replaceRuns(s, WhitespaceSet, "_")

\* Mutant of collapseDashes: the dashes are deleted, as .replace(/-+/g, '') would.
collapseDashesDeleted(s) == SelectSeq(s, LAMBDA c : c # "-")

\* .replace(/-+/g, '_')
collapseDashes(s) == replaceRuns(s, {"-"}, "_")

\* .substring(from, to) for 0 <= from <= to
substring(s, from, to) ==
  SubSeq(s, from + 1, IF to < Len(s) THEN to ELSE Len(s))

\* the 50 of .substring(0, 50)
MaxFilenameLen == 50

Untitled == <<"u", "n", "t", "i", "t", "l", "e", "d">>

\* Mutant of sanitizeFilename: the runs are collapsed before the other characters
\* are stripped, so the underscores just written are stripped with them.
sanitizeFilenameStripLast(t) ==
  Or(substring(stripDisallowed(collapseDashes(collapseWhitespace(toLowerCase(t)))),
               0, MaxFilenameLen), Untitled)

\* Mutant of sanitizeFilename: the fallback 'untitled' is not applied.
sanitizeFilenameNoFallback(t) ==
  substring(collapseDashes(collapseWhitespace(stripDisallowed(toLowerCase(t)))),
            0, MaxFilenameLen)

\* Mutant of sanitizeFilename: toLowerCase() is missing.
sanitizeFilenameNoLowerCase(t) ==
  Or(substring(collapseDashes(collapseWhitespace(stripDisallowed(t))),
               0, MaxFilenameLen), Untitled)

sanitizeFilename(t) ==
  Or(substring(collapseDashes(collapseWhitespace(stripDisallowed(toLowerCase(t)))),
               0, MaxFilenameLen), Untitled)

---------------------------------------------------------------------------
(* The forms: defaultFormData, advancedSections, the label tables and the  *)
(* template literal of generateXML, form by form.                          *)

\* src/pages/bug_fix.tsx:5-59  interface: the fields of type string
textFields_bug_fix ==
  {"punchcardTitle", "observedBehavior", "expectedBehavior", "stepsToReproduce", "errorMessages",
   "affectedFiles", "environment", "filesToIgnore", "extraInfo", "codebaseVersion", "gitBranch",
   "lastWorkingCommit", "relatedIssues", "suspectedRootCause", "osVersion", "nodeVersion", "browserVersion",
   "databaseVersion", "dockerConfig", "frequencyOfBug", "dataConditions", "userPermissions",
   "networkConditions", "concurrencyScenario", "preferredFixApproach", "avoidPatterns",
   "performanceConstraints", "memoryConstraints", "timeoutRequirements", "existingTestFiles",
   "testFramework", "mockRequirements", "coverageTarget", "e2eConsiderations"}

\* src/pages/bug_fix.tsx:5-59  interface: the fields of type number
ratingFields_bug_fix ==
  {"documentationDepth", "urgency", "testingLevel", "creativityLevel", "logVerbosity"}

\* src/pages/bug_fix.tsx:5-59  interface: the fields of type boolean
boolFields_bug_fix ==
  {"includeComments", "generateTypes", "updateDocs", "createChangelog"}

\* src/pages/bug_fix.tsx:315-336  the inputs that carry the `required` attribute
requiredFields_bug_fix ==
  {"punchcardTitle", "observedBehavior", "expectedBehavior", "stepsToReproduce"}

\* src/pages/feature_request.tsx:5-60  interface: the fields of type string
textFields_feature_request ==
  {"punchcardTitle", "goal", "userStory", "acceptanceCriteria", "constraints", "referenceFiles",
   "techStack", "stylingGuidelines", "filesToIgnore", "extraInfo", "designPatterns", "folderStructure",
   "namingConventions", "stateManagement", "apiDesign", "dataModels", "databaseSchema", "validationRules",
   "dataTransformations", "caching", "componentLibrary", "responsiveBreakpoints", "accessibilityLevel",
   "animationPrefs", "apiEndpoints", "authRequirements", "thirdPartyServices", "webhooks", "eventSystem",
   "bundleSizeLimit", "renderingStrategy", "errorHandlingStrategy", "monitoringIntegration"}

\* src/pages/feature_request.tsx:5-60  interface: the fields of type number
ratingFields_feature_request ==
  {"documentationDepth", "creativityLevel", "scopeLevel", "documentationLevel", "loggingLevel"}

\* src/pages/feature_request.tsx:5-60  interface: the fields of type boolean
boolFields_feature_request ==
  {"darkModeSupport", "lazyLoading", "optimisticUpdates", "infiniteScroll", "featureFlags", "abTesting"}

\* src/pages/feature_request.tsx:317-333  the inputs that carry the `required` attribute
requiredFields_feature_request ==
  {"punchcardTitle", "goal", "userStory"}

\* src/pages/feature_change.tsx:5-61  interface: the fields of type string
textFields_feature_change ==
  {"punchcardTitle", "targetFunctionality", "desiredChange", "reasoning", "affectedAreas",
   "backwardCompatibility", "migrationNotes", "filesToIgnore", "extraInfo", "upstreamDependencies",
   "downstreamConsumers", "sharedUtilities", "affectedTests", "affectedDocs", "migrationStrategy",
   "rollbackPlan", "dataTransformation", "featureFlagStrategy", "apiVersioning", "deprecationStrategy",
   "legacySupport", "browserSupport", "mobileSupport", "regressionTestScope", "integrationTests",
   "performanceBenchmarks", "manualTestCases", "notifyTeams", "documentationUpdates", "changelogEntry",
   "releaseNotes", "userCommunication"}

\* src/pages/feature_change.tsx:5-61  interface: the fields of type number
ratingFields_feature_change ==
  {"documentationDepth", "testingLevel", "riskTolerance", "scopeLevel", "refactorDepth"}

\* src/pages/feature_change.tsx:5-61  interface: the fields of type boolean
boolFields_feature_change ==
  {"enableDocumentation", "breakingChangesOk", "gradualRollout", "deadCodeRemoval", "extractComponents",
   "consolidateDuplicates", "improveNaming", "snapshotUpdates"}

\* src/pages/feature_change.tsx:321-342  the inputs that carry the `required` attribute
requiredFields_feature_change ==
  {"punchcardTitle", "targetFunctionality", "desiredChange", "reasoning"}

\* src/pages/documentation.tsx:5-56  interface: the fields of type string
textFields_documentation ==
  {"targetCode", "documentationType", "audience", "existingDocs", "codebaseContext", "styleGuide",
   "filesToIgnore", "extraInfo", "markdownFlavor", "headingStructure", "codeBlockStyle", "diagramFormat",
   "sinceVersion", "typedocConfig", "jsdocTags", "readmeTemplate", "versioningStrategy"}

\* src/pages/documentation.tsx:5-56  interface: the fields of type number
ratingFields_documentation ==
  {"detailLevel", "technicalDepth", "examplesLevel", "exampleComplexity"}

\* src/pages/documentation.tsx:5-56  interface: the fields of type boolean
boolFields_documentation ==
  {"includeOverview", "includeInstallation", "includeQuickStart", "includeApiReference", "includeExamples",
   "tableOfContents", "paramDescriptions", "returnTypes", "throwsDocumentation", "deprecationNotes",
   "includeEdgeCases", "includeErrorHandling", "runableExamples", "testableExamples", "openApiSpec",
   "postmanCollection", "changelogIntegration", "autoGenerateFromTypes", "linkToSourceCode",
   "lastUpdatedTimestamp"}

\* src/pages/documentation.tsx:284-294  the inputs that carry the `required` attribute
requiredFields_documentation ==
  {"targetCode", "documentationType", "audience"}

\* src/pages/testing.tsx:5-59  interface: the fields of type string
textFields_testing ==
  {"punchcardTitle", "targetCode", "testingGoal", "testTypes", "existingTests", "testingFramework",
   "codebaseContext", "filesToIgnore", "extraInfo", "unitTestStyle", "assertionLibrary", "testNaming",
   "integrationScope", "databaseStrategy", "apiMocking", "e2eFramework", "browserTargets",
   "mockingFramework", "coverageThreshold", "excludeFromCoverage", "testTimeout", "reportFormat"}

\* src/pages/testing.tsx:5-59  interface: the fields of type number
ratingFields_testing ==
  {"documentationDepth", "coverage", "thoroughness", "mockingLevel", "mockDepth"}

\* src/pages/testing.tsx:5-59  interface: the fields of type boolean
boolFields_testing ==
  {"describeBlockStructure", "arrangeActAssert", "serviceIsolation", "transactionRollback", "headlessMode",
   "screenshotOnFailure", "videoRecording", "spyFunctions", "stubExternalCalls", "mockTimers",
   "branchCoverage", "lineCoverage", "functionCoverage", "parallelTests", "retryFlaky", "failFast"}

\* src/pages/testing.tsx:315-336  the inputs that carry the `required` attribute
requiredFields_testing ==
  {"punchcardTitle", "targetCode", "testingGoal", "testTypes"}

\* src/pages/cleanup.tsx:601-655  interface: the fields of type string
textFields_security_audit ==
  {"punchcardTitle", "targetCode", "auditScope", "securityConcerns", "appType", "sensitiveData",
   "existingMeasures", "filesToIgnore", "extraInfo", "reportFormat"}

\* src/pages/cleanup.tsx:601-655  interface: the fields of type number
ratingFields_security_audit ==
  {"documentationDepth", "severity", "thoroughness", "complianceLevel"}

\* src/pages/cleanup.tsx:601-655  interface: the fields of type boolean
boolFields_security_audit ==
  {"checkInjection", "checkXss", "checkCsrf", "checkAuth", "checkCrypto", "checkDataExposure",
   "checkSensitiveLogging", "checkEncryption", "checkPii", "checkSecretManagement", "checkRbac",
   "checkPrivilegeEscalation", "checkSessionManagement", "checkApiSecurity", "checkInputValidation",
   "checkDependencies", "checkConfig", "checkHeaders", "checkCors", "checkTls", "owaspTop10", "sansTop25",
   "gdprCompliance", "hipaaCompliance", "pciDss", "includeCwe", "includeCvss", "includeRemediation",
   "prioritizeBySeverity"}

\* src/pages/cleanup.tsx:906-922  the inputs that carry the `required` attribute
requiredFields_security_audit ==
  {"punchcardTitle", "targetCode", "auditScope"}

\* src/pages/cleanup.tsx:5-56  interface: the fields of type string
textFields_cleanup ==
  {"targetCode", "cleanupGoals", "cleanupTypes", "codebaseAge", "knownIssues", "constraints",
   "filesToIgnore", "extraInfo", "lineEndings", "maxLineLength", "bracesStyle"}

\* src/pages/cleanup.tsx:5-56  interface: the fields of type number
ratingFields_cleanup ==
  {"aggressiveness", "preserveComments", "testingRequired"}

\* src/pages/cleanup.tsx:5-56  interface: the fields of type boolean
boolFields_cleanup ==
  {"removeUnusedImports", "removeUnusedVariables", "removeUnusedFunctions", "removeUnreachableCode",
   "removeDeprecatedCode", "consistentIndentation", "trailingWhitespace", "simplifyConditionals",
   "extractMagicNumbers", "removeNestedTernaries", "flattenCallbacks", "consolidateDuplicates",
   "removeUnusedDeps", "updateOutdatedDeps", "consolidateSimilarDeps", "removePeerDepWarnings",
   "auditVulnerabilities", "removeCommentedCode", "updateStaleComments", "removeObviousComments",
   "standardizeTodoFormat", "documentRemainingTodos", "removeEmptyFiles", "consolidateConfigs",
   "organizeImports", "removeBackupFiles", "standardizeNaming"}

\* src/pages/cleanup.tsx:267-277  the inputs that carry the `required` attribute
requiredFields_cleanup ==
  {"targetCode", "cleanupGoals", "cleanupTypes"}

\* src/unnamed/part_001:5-17  interface: the fields of type string
textFields_bug_fix_v1 ==
  {"observedBehavior", "expectedBehavior", "stepsToReproduce", "errorMessages", "affectedFiles",
   "environment", "filesToIgnore", "extraInfo"}

\* src/unnamed/part_001:5-17  interface: the fields of type number
ratingFields_bug_fix_v1 ==
  {"urgency", "testingLevel", "creativityLevel"}

\* src/unnamed/part_001:5-17  interface: the fields of type boolean
boolFields_bug_fix_v1 ==
  {}

\* src/unnamed/part_001:169-193  the inputs that carry the `required` attribute
requiredFields_bug_fix_v1 ==
  {"observedBehavior", "expectedBehavior", "stepsToReproduce"}

\* src/pages/bug_fix.tsx:638-642  interface: the fields of type string
textFields_bug_fix_v0 ==
  {"observedBehavior", "expectedBehavior", "stepsToReproduce"}

\* src/pages/bug_fix.tsx:638-642  interface: the fields of type number
ratingFields_bug_fix_v0 ==
  {}

\* src/pages/bug_fix.tsx:638-642  interface: the fields of type boolean
boolFields_bug_fix_v0 ==
  {}

\* src/pages/bug_fix.tsx:737-765  the inputs that carry the `required` attribute
requiredFields_bug_fix_v0 ==
  {"observedBehavior", "expectedBehavior", "stepsToReproduce"}

\* src/pages/bug_fix.tsx:343-589  the inputs rendered inside {advancedSections.s && (...)}
sectionFields_bug_fix ==
  [ analysis |-> {"codebaseVersion", "gitBranch", "lastWorkingCommit", "relatedIssues",
        "suspectedRootCause"},
    environment |-> {"osVersion", "nodeVersion", "browserVersion", "databaseVersion", "dockerConfig"},
    reproduction |-> {"frequencyOfBug", "dataConditions", "userPermissions", "networkConditions",
        "concurrencyScenario"},
    fixPrefs |-> {"preferredFixApproach", "avoidPatterns", "performanceConstraints", "memoryConstraints",
        "timeoutRequirements"},
    testing |-> {"existingTestFiles", "testFramework", "mockRequirements", "coverageTarget",
        "e2eConsiderations"},
    output |-> {"logVerbosity", "includeComments", "generateTypes", "updateDocs", "createChangelog"} ]

\* src/pages/feature_request.tsx:345-600  the inputs rendered inside {advancedSections.s && (...)}
sectionFields_feature_request ==
  [ architecture |-> {"designPatterns", "folderStructure", "namingConventions", "stateManagement",
        "apiDesign"},
    data |-> {"dataModels", "databaseSchema", "validationRules", "dataTransformations", "caching"},
    uiux |-> {"componentLibrary", "responsiveBreakpoints", "accessibilityLevel", "animationPrefs",
        "darkModeSupport"},
    integration |-> {"apiEndpoints", "authRequirements", "thirdPartyServices", "webhooks",
        "eventSystem"},
    performance |-> {"lazyLoading", "bundleSizeLimit", "renderingStrategy", "optimisticUpdates",
        "infiniteScroll"},
    quality |-> {"errorHandlingStrategy", "loggingLevel", "monitoringIntegration", "featureFlags",
        "abTesting"} ]

\* src/pages/feature_change.tsx:349-606  the inputs rendered inside {advancedSections.s && (...)}
sectionFields_feature_change ==
  [ impact |-> {"upstreamDependencies", "downstreamConsumers", "sharedUtilities", "affectedTests",
        "affectedDocs"},
    migration |-> {"migrationStrategy", "rollbackPlan", "dataTransformation", "featureFlagStrategy",
        "gradualRollout"},
    compatibility |-> {"apiVersioning", "deprecationStrategy", "legacySupport", "browserSupport",
        "mobileSupport"},
    refactoring |-> {"refactorDepth", "deadCodeRemoval", "extractComponents", "consolidateDuplicates",
        "improveNaming"},
    testing |-> {"regressionTestScope", "integrationTests", "performanceBenchmarks", "snapshotUpdates",
        "manualTestCases"},
    communication |-> {"notifyTeams", "documentationUpdates", "changelogEntry", "releaseNotes",
        "userCommunication"} ]

\* src/pages/documentation.tsx:301-579  the inputs rendered inside {advancedSections.s && (...)}
sectionFields_documentation ==
  [ content |-> {"includeOverview", "includeInstallation", "includeQuickStart", "includeApiReference",
        "includeExamples"},
    format |-> {"markdownFlavor", "headingStructure", "codeBlockStyle", "diagramFormat",
        "tableOfContents"},
    apiDocs |-> {"paramDescriptions", "returnTypes", "throwsDocumentation", "deprecationNotes",
        "sinceVersion"},
    examples |-> {"exampleComplexity", "includeEdgeCases", "includeErrorHandling", "runableExamples",
        "testableExamples"},
    integration |-> {"typedocConfig", "jsdocTags", "openApiSpec", "postmanCollection", "readmeTemplate"},
    maintenance |-> {"versioningStrategy", "changelogIntegration", "autoGenerateFromTypes",
        "linkToSourceCode", "lastUpdatedTimestamp"} ]

\* src/pages/testing.tsx:343-613  the inputs rendered inside {advancedSections.s && (...)}
sectionFields_testing ==
  [ unit |-> {"unitTestStyle", "assertionLibrary", "describeBlockStructure", "testNaming",
        "arrangeActAssert"},
    integration |-> {"integrationScope", "databaseStrategy", "apiMocking", "serviceIsolation",
        "transactionRollback"},
    e2e |-> {"e2eFramework", "browserTargets", "headlessMode", "screenshotOnFailure", "videoRecording"},
    mocking |-> {"mockingFramework", "mockDepth", "spyFunctions", "stubExternalCalls", "mockTimers"},
    coverage |-> {"coverageThreshold", "branchCoverage", "lineCoverage", "functionCoverage",
        "excludeFromCoverage"},
    cicd |-> {"parallelTests", "retryFlaky", "testTimeout", "reportFormat", "failFast"} ]

\* src/pages/cleanup.tsx:934-1225  the inputs rendered inside {advancedSections.s && (...)}
sectionFields_security_audit ==
  [ vulnerabilities |-> {"checkInjection", "checkXss", "checkCsrf", "checkAuth", "checkCrypto"},
    dataSecurity |-> {"checkDataExposure", "checkSensitiveLogging", "checkEncryption", "checkPii",
        "checkSecretManagement"},
    accessControl |-> {"checkRbac", "checkPrivilegeEscalation", "checkSessionManagement",
        "checkApiSecurity", "checkInputValidation"},
    infrastructure |-> {"checkDependencies", "checkConfig", "checkHeaders", "checkCors", "checkTls"},
    compliance |-> {"owaspTop10", "sansTop25", "gdprCompliance", "hipaaCompliance", "pciDss"},
    output |-> {"reportFormat", "includeCwe", "includeCvss", "includeRemediation",
        "prioritizeBySeverity"} ]

\* src/pages/cleanup.tsx:284-571  the inputs rendered inside {advancedSections.s && (...)}
sectionFields_cleanup ==
  [ deadCode |-> {"removeUnusedImports", "removeUnusedVariables", "removeUnusedFunctions",
        "removeUnreachableCode", "removeDeprecatedCode"},
    formatting |-> {"consistentIndentation", "lineEndings", "trailingWhitespace", "maxLineLength",
        "bracesStyle"},
    structure |-> {"simplifyConditionals", "extractMagicNumbers", "removeNestedTernaries",
        "flattenCallbacks", "consolidateDuplicates"},
    dependencies |-> {"removeUnusedDeps", "updateOutdatedDeps", "consolidateSimilarDeps",
        "removePeerDepWarnings", "auditVulnerabilities"},
    comments |-> {"removeCommentedCode", "updateStaleComments", "removeObviousComments",
        "standardizeTodoFormat", "documentRemainingTodos"},
    files |-> {"removeEmptyFiles", "consolidateConfigs", "organizeImports", "removeBackupFiles",
        "standardizeNaming"} ]

\* src/pages/bug_fix.tsx:274  downloadXML: the value of a.download
downloadFilename_bug_fix(fd) == sanitizeFilename(fd.punchcardTitle) \o <<"_bug_fix.xml">>

\* src/pages/bug_fix.tsx:613-627  the handlers of the buttons inside {xmlOutput && (...)}
exportActions_bug_fix == {"downloadXML", "copyToClipboard"}

\* src/pages/feature_request.tsx:276  downloadXML: the value of a.download
downloadFilename_feature_request(fd) == sanitizeFilename(fd.punchcardTitle) \o <<"_feature_request.xml">>

\* src/pages/feature_request.tsx:624-638  the handlers of the buttons inside {xmlOutput && (...)}
exportActions_feature_request == {"downloadXML", "copyToClipboard"}

\* src/pages/feature_change.tsx:280  downloadXML: the value of a.download
downloadFilename_feature_change(fd) == sanitizeFilename(fd.punchcardTitle) \o <<"_feature_change.xml">>

\* src/pages/feature_change.tsx:638-652  the handlers of the buttons inside {xmlOutput && (...)}
exportActions_feature_change == {"downloadXML", "copyToClipboard"}

\* src/pages/documentation.tsx:246  downloadXML: the value of a.download
downloadFilename_documentation(fd) == <<"documentation_task.xml">>

\* src/pages/documentation.tsx:588-602  the handlers of the buttons inside {xmlOutput && (...)}
exportActions_documentation == {"downloadXML", "copyToClipboard"}

\* src/pages/testing.tsx:274  downloadXML: the value of a.download
downloadFilename_testing(fd) == sanitizeFilename(fd.punchcardTitle) \o <<"_testing.xml">>

\* src/pages/testing.tsx:637-651  the handlers of the buttons inside {xmlOutput && (...)}
exportActions_testing == {"downloadXML", "copyToClipboard"}

\* src/pages/cleanup.tsx:865  downloadXML: the value of a.download
downloadFilename_security_audit(fd) == sanitizeFilename(fd.punchcardTitle) \o <<"_security_audit.xml">>

\* src/pages/cleanup.tsx:1249-1263  the handlers of the buttons inside {xmlOutput && (...)}
exportActions_security_audit == {"downloadXML", "copyToClipboard"}

\* src/pages/cleanup.tsx:580-590  the handlers of the buttons inside {xmlOutput && (...)}
exportActions_cleanup == {"copyToClipboard"}

\* src/pages/bug_fix.tsx:61-105  defaultFormData
defaultFormData_bug_fix ==
  [  punchcardTitle |-> <<>>,
     documentationDepth |-> 3,
     observedBehavior |-> <<>>,
     expectedBehavior |-> <<>>,
     stepsToReproduce |-> <<>>,
     errorMessages |-> <<>>,
     affectedFiles |-> <<>>,
     environment |-> <<>>,
     urgency |-> 3,
     testingLevel |-> 3,
     creativityLevel |-> 2,
     filesToIgnore |-> <<>>,
     extraInfo |-> <<>>,
     codebaseVersion |-> <<>>,
     gitBranch |-> <<>>,
     lastWorkingCommit |-> <<>>,
     relatedIssues |-> <<>>,
     suspectedRootCause |-> <<>>,
     osVersion |-> <<>>,
     nodeVersion |-> <<>>,
     browserVersion |-> <<>>,
     databaseVersion |-> <<>>,
     dockerConfig |-> <<>>,
     frequencyOfBug |-> <<>>,
     dataConditions |-> <<>>,
     userPermissions |-> <<>>,
     networkConditions |-> <<>>,
     concurrencyScenario |-> <<>>,
     preferredFixApproach |-> <<>>,
     avoidPatterns |-> <<>>,
     performanceConstraints |-> <<>>,
     memoryConstraints |-> <<>>,
     timeoutRequirements |-> <<>>,
     existingTestFiles |-> <<>>,
     testFramework |-> <<>>,
     mockRequirements |-> <<>>,
     coverageTarget |-> <<>>,
     e2eConsiderations |-> <<>>,
     logVerbosity |-> 3,
     includeComments |-> TRUE,
     generateTypes |-> FALSE,
     updateDocs |-> FALSE,
     createChangelog |-> FALSE ]

\* src/pages/bug_fix.tsx:112-119  useState of advancedSections
advancedSections_bug_fix ==
  [ analysis |-> FALSE, environment |-> FALSE, reproduction |-> FALSE, fixPrefs |-> FALSE, testing |-> FALSE, output |-> FALSE ]

\* src/pages/bug_fix.tsx:139-142  getUrgencyLabel
getUrgencyLabel_bug_fix(val) ==
  LabelAt(<<"Low - whenever",
            "Minor - soon",
            "Normal",
            "High - ASAP",
            "Critical - NOW">>, val)

\* src/pages/bug_fix.tsx:144-147  getTestingLabel
getTestingLabel_bug_fix(val) ==
  LabelAt(<<"Minimal - just verify fix",
            "Light - basic tests",
            "Standard",
            "Thorough - edge cases",
            "Exhaustive - full coverage">>, val)

\* src/pages/bug_fix.tsx:149-152  getCreativityLabel
getCreativityLabel_bug_fix(val) ==
  LabelAt(<<"Conservative - safest fix",
            "Cautious",
            "Balanced",
            "Open to ideas",
            "Creative - explore options">>, val)

\* src/pages/bug_fix.tsx:154-157  getVerbosityLabel
getVerbosityLabel_bug_fix(val) ==
  LabelAt(<<"Silent - errors only",
            "Quiet",
            "Normal",
            "Verbose",
            "Debug - everything">>, val)

\* src/pages/bug_fix.tsx:159-162  getDocDepthLabel
getDocDepthLabel_bug_fix(val) ==
  LabelAt(<<"Minimal - snappy dot points",
            "Brief - key points only",
            "Standard - balanced detail",
            "Detailed - thorough coverage",
            "Deep - comprehensive documentation">>, val)

\* src/pages/bug_fix.tsx:173-261  generateXML: the template literal
generateXML_bug_fix(fd) ==
     <<"<task_card type=\"bug_fix\"", " title=\"">>
  \o Or(fd.punchcardTitle, <<"Untitled Bug Fix">>)
  \o <<"\">\n    ", "<meta_instruction>",
       "\n        DO NOT fix the code immediately. Follow this strict process:\n        0. CONTEXT STUDY: Deeply analyze the provided codebase. Identify the files involved in the error, trace the execution flow, and understand the expected state vs actual state.\n        1. ANALYZE: Read the provided stack trace/behavior in relation to your codebase study.\n        2. REPRODUCE: Write a standalone reproduction script or test case that fails.\n        3. CONFIRM: Wait for me to run the script and confirm the failure.\n        4. FIX: Apply the fix to the codebase.\n        5. VERIFY: Run the reproduction script again to prove it passes.\n    ",
       "</meta_instruction>", "\n\n    ", "<documentation_requirement>", "\n        ", "<instruction>",
       "After completing this task, create a markdown file documenting the work done.", "</instruction>",
       "\n        ", "<output_path>", "punchcards/">>
  \o sanitizeFilename(fd.punchcardTitle)
  \o <<".md", "</output_path>", "\n        ", "<detail_level level=\"">>
  \o NumStr(fd.documentationDepth)
  \o <<"\">">>
  \o getDocDepthLabel_bug_fix(fd.documentationDepth)
  \o <<"</detail_level>", "\n        ", "<format>",
       "\n            Level 1: Task title, one-line summary, files changed (bullet list)\n            Level 2: Above + brief problem/solution description\n            Level 3: Above + key decisions made, testing notes\n            Level 4: Above + detailed reasoning, edge cases considered, related issues\n            Level 5: Above + full context, alternative approaches considered, future considerations\n        ",
       "</format>", "\n    ", "</documentation_requirement>", "\n\n    ", "<bug_details>", "\n        ",
       "<observed_behavior>">>
  \o fd.observedBehavior
  \o <<"</observed_behavior>", "\n        ", "<expected_behavior>">>
  \o fd.expectedBehavior
  \o <<"</expected_behavior>", "\n        ", "<steps_to_reproduce>">>
  \o fd.stepsToReproduce
  \o <<"</steps_to_reproduce>", "\n        ", "<error_messages>">>
  \o Or(fd.errorMessages, <<"N/A">>)
  \o <<"</error_messages>", "\n        ", "<affected_files>">>
  \o Or(fd.affectedFiles, <<"Unknown - please investigate">>)
  \o <<"</affected_files>", "\n        ", "<environment>">>
  \o Or(fd.environment, <<"Not specified">>)
  \o <<"</environment>", "\n    ", "</bug_details>", "\n\n    ", "<preferences>", "\n        ",
       "<urgency level=\"">>
  \o NumStr(fd.urgency)
  \o <<"\">">>
  \o getUrgencyLabel_bug_fix(fd.urgency)
  \o <<"</urgency>", "\n        ", "<testing_level level=\"">>
  \o NumStr(fd.testingLevel)
  \o <<"\">">>
  \o getTestingLabel_bug_fix(fd.testingLevel)
  \o <<"</testing_level>", "\n        ", "<creativity_level level=\"">>
  \o NumStr(fd.creativityLevel)
  \o <<"\">">>
  \o getCreativityLabel_bug_fix(fd.creativityLevel)
  \o <<"</creativity_level>", "\n        ", "<files_to_ignore>">>
  \o Or(fd.filesToIgnore, <<"None">>)
  \o <<"</files_to_ignore>", "\n        ", "<extra_info>">>
  \o Or(fd.extraInfo, <<"None">>)
  \o <<"</extra_info>", "\n    ", "</preferences>", "\n\n    ", "<advanced_config>", "\n        ", "<analysis>",
       "\n            ", "<codebase_version>">>
  \o Or(fd.codebaseVersion, <<"Not specified">>)
  \o <<"</codebase_version>", "\n            ", "<git_branch>">>
  \o Or(fd.gitBranch, <<"Not specified">>)
  \o <<"</git_branch>", "\n            ", "<last_working_commit>">>
  \o Or(fd.lastWorkingCommit, <<"Unknown">>)
  \o <<"</last_working_commit>", "\n            ", "<related_issues>">>
  \o Or(fd.relatedIssues, <<"None">>)
  \o <<"</related_issues>", "\n            ", "<suspected_root_cause>">>
  \o Or(fd.suspectedRootCause, <<"Unknown">>)
  \o <<"</suspected_root_cause>", "\n        ", "</analysis>", "\n        ", "<environment_details>",
       "\n            ", "<os_version>">>
  \o Or(fd.osVersion, <<"Not specified">>)
  \o <<"</os_version>", "\n            ", "<node_version>">>
  \o Or(fd.nodeVersion, <<"Not specified">>)
  \o <<"</node_version>", "\n            ", "<browser_version>">>
  \o Or(fd.browserVersion, <<"Not specified">>)
  \o <<"</browser_version>", "\n            ", "<database_version>">>
  \o Or(fd.databaseVersion, <<"Not specified">>)
  \o <<"</database_version>", "\n            ", "<docker_config>">>
  \o Or(fd.dockerConfig, <<"None">>)
  \o <<"</docker_config>", "\n        ", "</environment_details>", "\n        ", "<reproduction_context>",
       "\n            ", "<frequency>">>
  \o Or(fd.frequencyOfBug, <<"Not specified">>)
  \o <<"</frequency>", "\n            ", "<data_conditions>">>
  \o Or(fd.dataConditions, <<"Not specified">>)
  \o <<"</data_conditions>", "\n            ", "<user_permissions>">>
  \o Or(fd.userPermissions, <<"Not specified">>)
  \o <<"</user_permissions>", "\n            ", "<network_conditions>">>
  \o Or(fd.networkConditions, <<"Not specified">>)
  \o <<"</network_conditions>", "\n            ", "<concurrency_scenario>">>
  \o Or(fd.concurrencyScenario, <<"None">>)
  \o <<"</concurrency_scenario>", "\n        ", "</reproduction_context>", "\n        ", "<fix_preferences>",
       "\n            ", "<preferred_approach>">>
  \o Or(fd.preferredFixApproach, <<"No preference">>)
  \o <<"</preferred_approach>", "\n            ", "<avoid_patterns>">>
  \o Or(fd.avoidPatterns, <<"None">>)
  \o <<"</avoid_patterns>", "\n            ", "<performance_constraints>">>
  \o Or(fd.performanceConstraints, <<"None">>)
  \o <<"</performance_constraints>", "\n            ", "<memory_constraints>">>
  \o Or(fd.memoryConstraints, <<"None">>)
  \o <<"</memory_constraints>", "\n            ", "<timeout_requirements>">>
  \o Or(fd.timeoutRequirements, <<"None">>)
  \o <<"</timeout_requirements>", "\n        ", "</fix_preferences>", "\n        ", "<testing_config>",
       "\n            ", "<existing_test_files>">>
  \o Or(fd.existingTestFiles, <<"None specified">>)
  \o <<"</existing_test_files>", "\n            ", "<test_framework>">>
  \o Or(fd.testFramework, <<"Use project default">>)
  \o <<"</test_framework>", "\n            ", "<mock_requirements>">>
  \o Or(fd.mockRequirements, <<"None">>)
  \o <<"</mock_requirements>", "\n            ", "<coverage_target>">>
  \o Or(fd.coverageTarget, <<"Not specified">>)
  \o <<"</coverage_target>", "\n            ", "<e2e_considerations>">>
  \o Or(fd.e2eConsiderations, <<"None">>)
  \o <<"</e2e_considerations>", "\n        ", "</testing_config>", "\n        ", "<output_preferences>",
       "\n            ", "<log_verbosity level=\"">>
  \o NumStr(fd.logVerbosity)
  \o <<"\">">>
  \o getVerbosityLabel_bug_fix(fd.logVerbosity)
  \o <<"</log_verbosity>", "\n            ", "<include_comments>">>
  \o Cond(fd.includeComments, <<"Yes">>, <<"No">>)
  \o <<"</include_comments>", "\n            ", "<generate_types>">>
  \o Cond(fd.generateTypes, <<"Yes">>, <<"No">>)
  \o <<"</generate_types>", "\n            ", "<update_docs>">>
  \o Cond(fd.updateDocs, <<"Yes">>, <<"No">>)
  \o <<"</update_docs>", "\n            ", "<create_changelog>">>
  \o Cond(fd.createChangelog, <<"Yes">>, <<"No">>)
  \o <<"</create_changelog>", "\n        ", "</output_preferences>", "\n    ", "</advanced_config>", "\n",
       "</task_card>">>

\* src/pages/feature_request.tsx:62-107  defaultFormData
defaultFormData_feature_request ==
  [  punchcardTitle |-> <<>>,
     documentationDepth |-> 3,
     goal |-> <<>>,
     userStory |-> <<>>,
     acceptanceCriteria |-> <<>>,
     constraints |-> <<>>,
     referenceFiles |-> <<>>,
     techStack |-> <<>>,
     stylingGuidelines |-> <<>>,
     creativityLevel |-> 3,
     scopeLevel |-> 3,
     documentationLevel |-> 3,
     filesToIgnore |-> <<>>,
     extraInfo |-> <<>>,
     designPatterns |-> <<>>,
     folderStructure |-> <<>>,
     namingConventions |-> <<>>,
     stateManagement |-> <<>>,
     apiDesign |-> <<>>,
     dataModels |-> <<>>,
     databaseSchema |-> <<>>,
     validationRules |-> <<>>,
     dataTransformations |-> <<>>,
     caching |-> <<>>,
     componentLibrary |-> <<>>,
     responsiveBreakpoints |-> <<>>,
     accessibilityLevel |-> <<>>,
     animationPrefs |-> <<>>,
     darkModeSupport |-> FALSE,
     apiEndpoints |-> <<>>,
     authRequirements |-> <<>>,
     thirdPartyServices |-> <<>>,
     webhooks |-> <<>>,
     eventSystem |-> <<>>,
     lazyLoading |-> FALSE,
     bundleSizeLimit |-> <<>>,
     renderingStrategy |-> <<>>,
     optimisticUpdates |-> FALSE,
     infiniteScroll |-> FALSE,
     errorHandlingStrategy |-> <<>>,
     loggingLevel |-> 3,
     monitoringIntegration |-> <<>>,
     featureFlags |-> FALSE,
     abTesting |-> FALSE ]

\* src/pages/feature_request.tsx:114-121  useState of advancedSections
advancedSections_feature_request ==
  [ architecture |-> FALSE, data |-> FALSE, uiux |-> FALSE, integration |-> FALSE, performance |-> FALSE, quality |-> FALSE ]

\* src/pages/feature_request.tsx:141-144  getCreativityLabel
getCreativityLabel_feature_request(val) ==
  LabelAt(<<"Conservative - follow patterns strictly",
            "Cautious - minimal innovation",
            "Balanced",
            "Open - suggest improvements",
            "Creative - propose best solutions">>, val)

\* src/pages/feature_request.tsx:146-149  getScopeLabel
getScopeLabel_feature_request(val) ==
  LabelAt(<<"MVP - bare minimum",
            "Lean - essential only",
            "Standard",
            "Complete - polish included",
            "Comprehensive - full bells & whistles">>, val)

\* src/pages/feature_request.tsx:151-154  getDocumentationLabel
getDocumentationLabel_feature_request(val) ==
  LabelAt(<<"None - just code",
            "Minimal - key comments",
            "Standard",
            "Detailed - inline docs",
            "Extensive - full documentation">>, val)

\* src/pages/feature_request.tsx:156-159  getLoggingLabel
getLoggingLabel_feature_request(val) ==
  LabelAt(<<"None",
            "Errors only",
            "Standard",
            "Verbose",
            "Debug everything">>, val)

\* src/pages/feature_request.tsx:161-164  getDocDepthLabel
getDocDepthLabel_feature_request(val) ==
  LabelAt(<<"Minimal - snappy dot points",
            "Brief - key points only",
            "Standard - balanced detail",
            "Detailed - thorough coverage",
            "Deep - comprehensive documentation">>, val)

\* src/pages/feature_request.tsx:175-263  generateXML: the template literal
generateXML_feature_request(fd) ==
     <<"<task_card type=\"feature_request\"", " title=\"">>
  \o Or(fd.punchcardTitle, <<"Untitled Feature Request">>)
  \o <<"\">\n  ", "<meta_instruction>",
       "\n    Adopt a \"Skeleton-of-Thought\" approach:\n    0. CONTEXT STUDY: Review the existing project structure, design patterns, and utility libraries. Ensure new additions align with established coding conventions.\n    1. ARCHITECTURE: Summarize the files you need to create or modify based on your study.\n    2. CONTRACTS: Write the Interfaces, Types, or DB Schemas FIRST.\n    3. STOP: Ask for my approval on the interfaces before writing logic.\n    4. IMPLEMENT: Once approved, write the implementation logic.\n  ",
       "</meta_instruction>", "\n\n  ", "<documentation_requirement>", "\n    ", "<instruction>",
       "After completing this task, create a markdown file documenting the work done.", "</instruction>",
       "\n    ", "<output_path>", "punchcards/">>
  \o sanitizeFilename(fd.punchcardTitle)
  \o <<".md", "</output_path>", "\n    ", "<detail_level level=\"">>
  \o NumStr(fd.documentationDepth)
  \o <<"\">">>
  \o getDocDepthLabel_feature_request(fd.documentationDepth)
  \o <<"</detail_level>", "\n    ", "<format>",
       "\n      Level 1: Task title, one-line summary, files changed (bullet list)\n      Level 2: Above + brief problem/solution description\n      Level 3: Above + key decisions made, testing notes\n      Level 4: Above + detailed reasoning, edge cases considered, related issues\n      Level 5: Above + full context, alternative approaches considered, future considerations\n    ",
       "</format>", "\n  ", "</documentation_requirement>", "\n\n  ", "<feature_details>", "\n    ", "<goal>">>
  \o fd.goal
  \o <<"</goal>", "\n    ", "<user_story>">>
  \o fd.userStory
  \o <<"</user_story>", "\n    ", "<acceptance_criteria>">>
  \o Or(fd.acceptanceCriteria, <<"Not specified - use your judgment">>)
  \o <<"</acceptance_criteria>", "\n    ", "<constraints>">>
  \o Or(fd.constraints, <<"None specified">>)
  \o <<"</constraints>", "\n    ", "<reference_files>">>
  \o Or(fd.referenceFiles, <<"None specified - explore codebase">>)
  \o <<"</reference_files>", "\n    ", "<tech_stack>">>
  \o Or(fd.techStack, <<"Follow existing project patterns">>)
  \o <<"</tech_stack>", "\n    ", "<styling_guidelines>">>
  \o Or(fd.stylingGuidelines, <<"Follow existing patterns">>)
  \o <<"</styling_guidelines>", "\n  ", "</feature_details>", "\n\n  ", "<preferences>", "\n    ",
       "<creativity_level level=\"">>
  \o NumStr(fd.creativityLevel)
  \o <<"\">">>
  \o getCreativityLabel_feature_request(fd.creativityLevel)
  \o <<"</creativity_level>", "\n    ", "<scope_level level=\"">>
  \o NumStr(fd.scopeLevel)
  \o <<"\">">>
  \o getScopeLabel_feature_request(fd.scopeLevel)
  \o <<"</scope_level>", "\n    ", "<documentation_level level=\"">>
  \o NumStr(fd.documentationLevel)
  \o <<"\">">>
  \o getDocumentationLabel_feature_request(fd.documentationLevel)
  \o <<"</documentation_level>", "\n    ", "<files_to_ignore>">>
  \o Or(fd.filesToIgnore, <<"None">>)
  \o <<"</files_to_ignore>", "\n    ", "<extra_info>">>
  \o Or(fd.extraInfo, <<"None">>)
  \o <<"</extra_info>", "\n  ", "</preferences>", "\n\n  ", "<advanced_config>", "\n    ", "<architecture>",
       "\n      ", "<design_patterns>">>
  \o Or(fd.designPatterns, <<"Follow existing">>)
  \o <<"</design_patterns>", "\n      ", "<folder_structure>">>
  \o Or(fd.folderStructure, <<"Follow existing">>)
  \o <<"</folder_structure>", "\n      ", "<naming_conventions>">>
  \o Or(fd.namingConventions, <<"Follow existing">>)
  \o <<"</naming_conventions>", "\n      ", "<state_management>">>
  \o Or(fd.stateManagement, <<"Follow existing">>)
  \o <<"</state_management>", "\n      ", "<api_design>">>
  \o Or(fd.apiDesign, <<"RESTful default">>)
  \o <<"</api_design>", "\n    ", "</architecture>", "\n    ", "<data>", "\n      ", "<data_models>">>
  \o Or(fd.dataModels, <<"Not specified">>)
  \o <<"</data_models>", "\n      ", "<database_schema>">>
  \o Or(fd.databaseSchema, <<"Not specified">>)
  \o <<"</database_schema>", "\n      ", "<validation_rules>">>
  \o Or(fd.validationRules, <<"Standard validation">>)
  \o <<"</validation_rules>", "\n      ", "<data_transformations>">>
  \o Or(fd.dataTransformations, <<"None specified">>)
  \o <<"</data_transformations>", "\n      ", "<caching_strategy>">>
  \o Or(fd.caching, <<"Default">>)
  \o <<"</caching_strategy>", "\n    ", "</data>", "\n    ", "<ui_ux>", "\n      ", "<component_library>">>
  \o Or(fd.componentLibrary, <<"Use existing">>)
  \o <<"</component_library>", "\n      ", "<responsive_breakpoints>">>
  \o Or(fd.responsiveBreakpoints, <<"Standard breakpoints">>)
  \o <<"</responsive_breakpoints>", "\n      ", "<accessibility_level>">>
  \o Or(fd.accessibilityLevel, <<"WCAG AA">>)
  \o <<"</accessibility_level>", "\n      ", "<animation_preferences>">>
  \o Or(fd.animationPrefs, <<"Subtle">>)
  \o <<"</animation_preferences>", "\n      ", "<dark_mode_support>">>
  \o Cond(fd.darkModeSupport, <<"Yes">>, <<"No">>)
  \o <<"</dark_mode_support>", "\n    ", "</ui_ux>", "\n    ", "<integration>", "\n      ", "<api_endpoints>">>
  \o Or(fd.apiEndpoints, <<"Not specified">>)
  \o <<"</api_endpoints>", "\n      ", "<auth_requirements>">>
  \o Or(fd.authRequirements, <<"Follow existing auth">>)
  \o <<"</auth_requirements>", "\n      ", "<third_party_services>">>
  \o Or(fd.thirdPartyServices, <<"None">>)
  \o <<"</third_party_services>", "\n      ", "<webhooks>">>
  \o Or(fd.webhooks, <<"None">>)
  \o <<"</webhooks>", "\n      ", "<event_system>">>
  \o Or(fd.eventSystem, <<"None">>)
  \o <<"</event_system>", "\n    ", "</integration>", "\n    ", "<performance>", "\n      ", "<lazy_loading>">>
  \o Cond(fd.lazyLoading, <<"Yes">>, <<"No">>)
  \o <<"</lazy_loading>", "\n      ", "<bundle_size_limit>">>
  \o Or(fd.bundleSizeLimit, <<"No strict limit">>)
  \o <<"</bundle_size_limit>", "\n      ", "<rendering_strategy>">>
  \o Or(fd.renderingStrategy, <<"Default">>)
  \o <<"</rendering_strategy>", "\n      ", "<optimistic_updates>">>
  \o Cond(fd.optimisticUpdates, <<"Yes">>, <<"No">>)
  \o <<"</optimistic_updates>", "\n      ", "<infinite_scroll>">>
  \o Cond(fd.infiniteScroll, <<"Yes">>, <<"No">>)
  \o <<"</infinite_scroll>", "\n    ", "</performance>", "\n    ", "<quality>", "\n      ",
       "<error_handling_strategy>">>
  \o Or(fd.errorHandlingStrategy, <<"Standard try-catch">>)
  \o <<"</error_handling_strategy>", "\n      ", "<logging_level level=\"">>
  \o NumStr(fd.loggingLevel)
  \o <<"\">">>
  \o getLoggingLabel_feature_request(fd.loggingLevel)
  \o <<"</logging_level>", "\n      ", "<monitoring_integration>">>
  \o Or(fd.monitoringIntegration, <<"None">>)
  \o <<"</monitoring_integration>", "\n      ", "<feature_flags>">>
  \o Cond(fd.featureFlags, <<"Yes">>, <<"No">>)
  \o <<"</feature_flags>", "\n      ", "<ab_testing>">>
  \o Cond(fd.abTesting, <<"Yes">>, <<"No">>)
  \o <<"</ab_testing>", "\n    ", "</quality>", "\n  ", "</advanced_config>", "\n", "</task_card>">>

\* src/pages/feature_change.tsx:63-109  defaultFormData
defaultFormData_feature_change ==
  [  punchcardTitle |-> <<>>,
     enableDocumentation |-> TRUE,
     documentationDepth |-> 3,
     targetFunctionality |-> <<>>,
     desiredChange |-> <<>>,
     reasoning |-> <<>>,
     affectedAreas |-> <<>>,
     backwardCompatibility |-> <<>>,
     migrationNotes |-> <<>>,
     testingLevel |-> 3,
     riskTolerance |-> 2,
     scopeLevel |-> 3,
     breakingChangesOk |-> FALSE,
     filesToIgnore |-> <<>>,
     extraInfo |-> <<>>,
     upstreamDependencies |-> <<>>,
     downstreamConsumers |-> <<>>,
     sharedUtilities |-> <<>>,
     affectedTests |-> <<>>,
     affectedDocs |-> <<>>,
     migrationStrategy |-> <<>>,
     rollbackPlan |-> <<>>,
     dataTransformation |-> <<>>,
     featureFlagStrategy |-> <<>>,
     gradualRollout |-> FALSE,
     refactorDepth |-> 2,
     deadCodeRemoval |-> FALSE,
     extractComponents |-> FALSE,
     consolidateDuplicates |-> FALSE,
     improveNaming |-> FALSE,
     apiVersioning |-> <<>>,
     deprecationStrategy |-> <<>>,
     legacySupport |-> <<>>,
     browserSupport |-> <<>>,
     mobileSupport |-> <<>>,
     regressionTestScope |-> <<>>,
     integrationTests |-> <<>>,
     performanceBenchmarks |-> <<>>,
     snapshotUpdates |-> FALSE,
     manualTestCases |-> <<>>,
     notifyTeams |-> <<>>,
     documentationUpdates |-> <<>>,
     changelogEntry |-> <<>>,
     releaseNotes |-> <<>>,
     userCommunication |-> <<>> ]

\* src/pages/feature_change.tsx:116-123  useState of advancedSections
advancedSections_feature_change ==
  [ impact |-> FALSE, migration |-> FALSE, refactoring |-> FALSE, compatibility |-> FALSE, testing |-> FALSE, communication |-> FALSE ]

\* src/pages/feature_change.tsx:143-146  getTestingLabel
getTestingLabel_feature_change(val) ==
  LabelAt(<<"Minimal - trust the change",
            "Light - spot check",
            "Standard",
            "Thorough - regression tests",
            "Exhaustive - full test suite">>, val)

\* src/pages/feature_change.tsx:148-151  getRiskLabel
getRiskLabel_feature_change(val) ==
  LabelAt(<<"Very cautious - safest approach",
            "Conservative",
            "Balanced",
            "Open to moderate risk",
            "Bold - willing to refactor heavily">>, val)

\* src/pages/feature_change.tsx:153-156  getScopeLabel
getScopeLabel_feature_change(val) ==
  LabelAt(<<"Minimal - only what's needed",
            "Focused",
            "Standard",
            "Broader - related improvements",
            "Comprehensive - full cleanup">>, val)

\* src/pages/feature_change.tsx:158-161  getRefactorLabel
getRefactorLabel_feature_change(val) ==
  LabelAt(<<"Surface - cosmetic only",
            "Shallow",
            "Moderate",
            "Deep",
            "Complete rewrite if needed">>, val)

\* src/pages/feature_change.tsx:163-166  getDocDepthLabel
getDocDepthLabel_feature_change(val) ==
  LabelAt(<<"Minimal - snappy dot points",
            "Brief - key points only",
            "Standard - balanced detail",
            "Detailed - thorough coverage",
            "Deep - comprehensive documentation">>, val)

\* Mutant of documentationBlock_feature_change: the condition is inverted.
documentationBlock_feature_changeInverted(fd) ==
  IF fd.enableDocumentation
  THEN <<>>
  ELSE <<"<documentation_requirement>", "</documentation_requirement>">>

\* src/pages/feature_change.tsx:178-191  documentationBlock
documentationBlock_feature_change(fd) ==
  IF fd.enableDocumentation
  THEN <<"\n  ", "<documentation_requirement>", "\n    ", "<instruction>",
       "After completing this task, create a markdown file documenting the work done.", "</instruction>",
       "\n    ", "<output_path>", "punchcards/">>
       \o sanitizeFilename(fd.punchcardTitle)
       \o <<".md", "</output_path>", "\n    ", "<detail_level level=\"">>
       \o NumStr(fd.documentationDepth)
       \o <<"\">">>
       \o getDocDepthLabel_feature_change(fd.documentationDepth)
       \o <<"</detail_level>", "\n    ", "<format>",
       "\n      Level 1: Task title, one-line summary, files changed (bullet list)\n      Level 2: Above + brief problem/solution description\n      Level 3: Above + key decisions made, testing notes\n      Level 4: Above + detailed reasoning, edge cases considered, related issues\n      Level 5: Above + full context, alternative approaches considered, future considerations\n    ",
       "</format>", "\n  ", "</documentation_requirement>", "\n">>
  ELSE <<>>

\* src/pages/feature_change.tsx:177-267  generateXML: the template literal
generateXML_feature_change(fd) ==
     <<"<task_card type=\"feature_change\"", " title=\"">>
  \o Or(fd.punchcardTitle, <<"Untitled Feature Change">>)
  \o <<"\">\n  ", "<meta_instruction>",
       "\n    Perform a \"Safe Refactor\" workflow:\n    0. CONTEXT STUDY: Map out the dependency graph for the target functionality. Identify all upstream callers and downstream dependencies.\n    1. IMPACT ANALYSIS: List all files and functions that rely on the code I want to change.\n    2. PLAN: Explain how you will handle backward compatibility or data migration.\n    3. EXECUTE: Apply the changes.\n    4. TEST: Suggest specific regression tests to ensure old features still work.\n  ",
       "</meta_instruction>", "\n">>
  \o documentationBlock_feature_change(fd)
  \o <<"\n  ", "<change_details>", "\n    ", "<target_functionality>">>
  \o fd.targetFunctionality
  \o <<"</target_functionality>", "\n    ", "<desired_change>">>
  \o fd.desiredChange
  \o <<"</desired_change>", "\n    ", "<reasoning>">>
  \o fd.reasoning
  \o <<"</reasoning>", "\n    ", "<affected_areas>">>
  \o Or(fd.affectedAreas, <<"Unknown - please analyze">>)
  \o <<"</affected_areas>", "\n    ", "<backward_compatibility_notes>">>
  \o Or(fd.backwardCompatibility, <<"Not specified">>)
  \o <<"</backward_compatibility_notes>", "\n    ", "<migration_notes>">>
  \o Or(fd.migrationNotes, <<"None">>)
  \o <<"</migration_notes>", "\n  ", "</change_details>", "\n\n  ", "<preferences>", "\n    ",
       "<testing_level level=\"">>
  \o NumStr(fd.testingLevel)
  \o <<"\">">>
  \o getTestingLabel_feature_change(fd.testingLevel)
  \o <<"</testing_level>", "\n    ", "<risk_tolerance level=\"">>
  \o NumStr(fd.riskTolerance)
  \o <<"\">">>
  \o getRiskLabel_feature_change(fd.riskTolerance)
  \o <<"</risk_tolerance>", "\n    ", "<scope_level level=\"">>
  \o NumStr(fd.scopeLevel)
  \o <<"\">">>
  \o getScopeLabel_feature_change(fd.scopeLevel)
  \o <<"</scope_level>", "\n    ", "<breaking_changes_allowed>">>
  \o Cond(fd.breakingChangesOk, <<"Yes - breaking changes are acceptable">>, <<"No - maintain backward compatibility">>)
  \o <<"</breaking_changes_allowed>", "\n    ", "<files_to_ignore>">>
  \o Or(fd.filesToIgnore, <<"None">>)
  \o <<"</files_to_ignore>", "\n    ", "<extra_info>">>
  \o Or(fd.extraInfo, <<"None">>)
  \o <<"</extra_info>", "\n  ", "</preferences>", "\n\n  ", "<advanced_config>", "\n    ", "<impact_analysis>",
       "\n      ", "<upstream_dependencies>">>
  \o Or(fd.upstreamDependencies, <<"Not specified">>)
  \o <<"</upstream_dependencies>", "\n      ", "<downstream_consumers>">>
  \o Or(fd.downstreamConsumers, <<"Not specified">>)
  \o <<"</downstream_consumers>", "\n      ", "<shared_utilities>">>
  \o Or(fd.sharedUtilities, <<"Not specified">>)
  \o <<"</shared_utilities>", "\n      ", "<affected_tests>">>
  \o Or(fd.affectedTests, <<"Not specified">>)
  \o <<"</affected_tests>", "\n      ", "<affected_docs>">>
  \o Or(fd.affectedDocs, <<"Not specified">>)
  \o <<"</affected_docs>", "\n    ", "</impact_analysis>", "\n    ", "<migration>", "\n      ",
       "<migration_strategy>">>
  \o Or(fd.migrationStrategy, <<"Not specified">>)
  \o <<"</migration_strategy>", "\n      ", "<rollback_plan>">>
  \o Or(fd.rollbackPlan, <<"Not specified">>)
  \o <<"</rollback_plan>", "\n      ", "<data_transformation>">>
  \o Or(fd.dataTransformation, <<"None">>)
  \o <<"</data_transformation>", "\n      ", "<feature_flag_strategy>">>
  \o Or(fd.featureFlagStrategy, <<"None">>)
  \o <<"</feature_flag_strategy>", "\n      ", "<gradual_rollout>">>
  \o Cond(fd.gradualRollout, <<"Yes">>, <<"No">>)
  \o <<"</gradual_rollout>", "\n    ", "</migration>", "\n    ", "<refactoring>", "\n      ",
       "<refactor_depth level=\"">>
  \o NumStr(fd.refactorDepth)
  \o <<"\">">>
  \o getRefactorLabel_feature_change(fd.refactorDepth)
  \o <<"</refactor_depth>", "\n      ", "<dead_code_removal>">>
  \o Cond(fd.deadCodeRemoval, <<"Yes">>, <<"No">>)
  \o <<"</dead_code_removal>", "\n      ", "<extract_components>">>
  \o Cond(fd.extractComponents, <<"Yes">>, <<"No">>)
  \o <<"</extract_components>", "\n      ", "<consolidate_duplicates>">>
  \o Cond(fd.consolidateDuplicates, <<"Yes">>, <<"No">>)
  \o <<"</consolidate_duplicates>", "\n      ", "<improve_naming>">>
  \o Cond(fd.improveNaming, <<"Yes">>, <<"No">>)
  \o <<"</improve_naming>", "\n    ", "</refactoring>", "\n    ", "<compatibility>", "\n      ",
       "<api_versioning>">>
  \o Or(fd.apiVersioning, <<"Not applicable">>)
  \o <<"</api_versioning>", "\n      ", "<deprecation_strategy>">>
  \o Or(fd.deprecationStrategy, <<"Not specified">>)
  \o <<"</deprecation_strategy>", "\n      ", "<legacy_support>">>
  \o Or(fd.legacySupport, <<"Not specified">>)
  \o <<"</legacy_support>", "\n      ", "<browser_support>">>
  \o Or(fd.browserSupport, <<"Current standards">>)
  \o <<"</browser_support>", "\n      ", "<mobile_support>">>
  \o Or(fd.mobileSupport, <<"Not specified">>)
  \o <<"</mobile_support>", "\n    ", "</compatibility>", "\n    ", "<testing>", "\n      ",
       "<regression_test_scope>">>
  \o Or(fd.regressionTestScope, <<"Standard">>)
  \o <<"</regression_test_scope>", "\n      ", "<integration_tests>">>
  \o Or(fd.integrationTests, <<"Not specified">>)
  \o <<"</integration_tests>", "\n      ", "<performance_benchmarks>">>
  \o Or(fd.performanceBenchmarks, <<"None">>)
  \o <<"</performance_benchmarks>", "\n      ", "<snapshot_updates>">>
  \o Cond(fd.snapshotUpdates, <<"Yes - update snapshots">>, <<"No">>)
  \o <<"</snapshot_updates>", "\n      ", "<manual_test_cases>">>
  \o Or(fd.manualTestCases, <<"None">>)
  \o <<"</manual_test_cases>", "\n    ", "</testing>", "\n    ", "<communication>", "\n      ",
       "<notify_teams>">>
  \o Or(fd.notifyTeams, <<"None">>)
  \o <<"</notify_teams>", "\n      ", "<documentation_updates>">>
  \o Or(fd.documentationUpdates, <<"As needed">>)
  \o <<"</documentation_updates>", "\n      ", "<changelog_entry>">>
  \o Or(fd.changelogEntry, <<"Auto-generate">>)
  \o <<"</changelog_entry>", "\n      ", "<release_notes>">>
  \o Or(fd.releaseNotes, <<"Not specified">>)
  \o <<"</release_notes>", "\n      ", "<user_communication>">>
  \o Or(fd.userCommunication, <<"None">>)
  \o <<"</user_communication>", "\n    ", "</communication>", "\n  ", "</advanced_config>", "\n",
       "</task_card>">>

\* src/pages/documentation.tsx:58-100  defaultFormData
defaultFormData_documentation ==
  [  targetCode |-> <<>>,
     documentationType |-> <<>>,
     audience |-> <<>>,
     existingDocs |-> <<>>,
     codebaseContext |-> <<>>,
     styleGuide |-> <<>>,
     detailLevel |-> 3,
     technicalDepth |-> 3,
     examplesLevel |-> 3,
     filesToIgnore |-> <<>>,
     extraInfo |-> <<>>,
     includeOverview |-> TRUE,
     includeInstallation |-> FALSE,
     includeQuickStart |-> FALSE,
     includeApiReference |-> TRUE,
     includeExamples |-> TRUE,
     markdownFlavor |-> <<>>,
     headingStructure |-> <<>>,
     codeBlockStyle |-> <<>>,
     diagramFormat |-> <<>>,
     tableOfContents |-> TRUE,
     paramDescriptions |-> TRUE,
     returnTypes |-> TRUE,
     throwsDocumentation |-> TRUE,
     deprecationNotes |-> FALSE,
     sinceVersion |-> <<>>,
     exampleComplexity |-> 3,
     includeEdgeCases |-> FALSE,
     includeErrorHandling |-> TRUE,
     runableExamples |-> FALSE,
     testableExamples |-> FALSE,
     typedocConfig |-> <<>>,
     jsdocTags |-> <<>>,
     openApiSpec |-> FALSE,
     postmanCollection |-> FALSE,
     readmeTemplate |-> <<>>,
     versioningStrategy |-> <<>>,
     changelogIntegration |-> FALSE,
     autoGenerateFromTypes |-> FALSE,
     linkToSourceCode |-> TRUE,
     lastUpdatedTimestamp |-> FALSE ]

\* src/pages/documentation.tsx:107-114  useState of advancedSections
advancedSections_documentation ==
  [ content |-> FALSE, format |-> FALSE, apiDocs |-> FALSE, examples |-> FALSE, integration |-> FALSE, maintenance |-> FALSE ]

\* src/pages/documentation.tsx:134-137  getDetailLabel
getDetailLabel_documentation(val) ==
  LabelAt(<<"Minimal - brief descriptions",
            "Concise",
            "Standard",
            "Detailed",
            "Comprehensive - exhaustive detail">>, val)

\* src/pages/documentation.tsx:139-142  getTechDepthLabel
getTechDepthLabel_documentation(val) ==
  LabelAt(<<"Beginner - no jargon",
            "Basic",
            "Intermediate",
            "Advanced",
            "Expert - assume deep knowledge">>, val)

\* src/pages/documentation.tsx:144-147  getExamplesLabel
getExamplesLabel_documentation(val) ==
  LabelAt(<<"None",
            "Minimal - one basic example",
            "Some examples",
            "Many examples",
            "Extensive - cover all cases">>, val)

\* src/pages/documentation.tsx:149-152  getComplexityLabel
getComplexityLabel_documentation(val) ==
  LabelAt(<<"Trivial - hello world",
            "Simple",
            "Moderate",
            "Complex",
            "Real-world production examples">>, val)

\* src/pages/documentation.tsx:154-229  generateXML: the template literal
generateXML_documentation(fd) ==
     <<"<task_card type=\"documentation\"", ">\n  ", "<meta_instruction>",
       "\n    Follow this documentation workflow:\n    0. CONTEXT STUDY: Review the target code thoroughly. Understand its purpose, inputs, outputs, and edge cases.\n    1. OUTLINE: Create a documentation structure outline based on the documentation type requested.\n    2. DRAFT: Write the documentation following the style guide and detail level specified.\n    3. EXAMPLES: Add code examples that demonstrate usage patterns.\n    4. REVIEW: Check for accuracy, completeness, and clarity.\n    5. FORMAT: Apply proper formatting, links, and cross-references.\n  ",
       "</meta_instruction>", "\n\n  ", "<documentation_details>", "\n    ", "<target_code>">>
  \o fd.targetCode
  \o <<"</target_code>", "\n    ", "<documentation_type>">>
  \o fd.documentationType
  \o <<"</documentation_type>", "\n    ", "<target_audience>">>
  \o fd.audience
  \o <<"</target_audience>", "\n    ", "<existing_docs>">>
  \o Or(fd.existingDocs, <<"None">>)
  \o <<"</existing_docs>", "\n    ", "<codebase_context>">>
  \o Or(fd.codebaseContext, <<"Not specified">>)
  \o <<"</codebase_context>", "\n    ", "<style_guide>">>
  \o Or(fd.styleGuide, <<"Use standard conventions">>)
  \o <<"</style_guide>", "\n  ", "</documentation_details>", "\n\n  ", "<preferences>", "\n    ",
       "<detail_level level=\"">>
  \o NumStr(fd.detailLevel)
  \o <<"\">">>
  \o getDetailLabel_documentation(fd.detailLevel)
  \o <<"</detail_level>", "\n    ", "<technical_depth level=\"">>
  \o NumStr(fd.technicalDepth)
  \o <<"\">">>
  \o getTechDepthLabel_documentation(fd.technicalDepth)
  \o <<"</technical_depth>", "\n    ", "<examples_level level=\"">>
  \o NumStr(fd.examplesLevel)
  \o <<"\">">>
  \o getExamplesLabel_documentation(fd.examplesLevel)
  \o <<"</examples_level>", "\n    ", "<files_to_ignore>">>
  \o Or(fd.filesToIgnore, <<"None">>)
  \o <<"</files_to_ignore>", "\n    ", "<extra_info>">>
  \o Or(fd.extraInfo, <<"None">>)
  \o <<"</extra_info>", "\n  ", "</preferences>", "\n\n  ", "<advanced_config>", "\n    ", "<content_sections>",
       "\n      ", "<include_overview>">>
  \o Cond(fd.includeOverview, <<"Yes">>, <<"No">>)
  \o <<"</include_overview>", "\n      ", "<include_installation>">>
  \o Cond(fd.includeInstallation, <<"Yes">>, <<"No">>)
  \o <<"</include_installation>", "\n      ", "<include_quick_start>">>
  \o Cond(fd.includeQuickStart, <<"Yes">>, <<"No">>)
  \o <<"</include_quick_start>", "\n      ", "<include_api_reference>">>
  \o Cond(fd.includeApiReference, <<"Yes">>, <<"No">>)
  \o <<"</include_api_reference>", "\n      ", "<include_examples>">>
  \o Cond(fd.includeExamples, <<"Yes">>, <<"No">>)
  \o <<"</include_examples>", "\n    ", "</content_sections>", "\n    ", "<formatting>", "\n      ",
       "<markdown_flavor>">>
  \o Or(fd.markdownFlavor, <<"GitHub Flavored">>)
  \o <<"</markdown_flavor>", "\n      ", "<heading_structure>">>
  \o Or(fd.headingStructure, <<"Standard H1-H6">>)
  \o <<"</heading_structure>", "\n      ", "<code_block_style>">>
  \o Or(fd.codeBlockStyle, <<"Fenced with language">>)
  \o <<"</code_block_style>", "\n      ", "<diagram_format>">>
  \o Or(fd.diagramFormat, <<"Mermaid">>)
  \o <<"</diagram_format>", "\n      ", "<table_of_contents>">>
  \o Cond(fd.tableOfContents, <<"Yes">>, <<"No">>)
  \o <<"</table_of_contents>", "\n    ", "</formatting>", "\n    ", "<api_documentation>", "\n      ",
       "<param_descriptions>">>
  \o Cond(fd.paramDescriptions, <<"Yes">>, <<"No">>)
  \o <<"</param_descriptions>", "\n      ", "<return_types>">>
  \o Cond(fd.returnTypes, <<"Yes">>, <<"No">>)
  \o <<"</return_types>", "\n      ", "<throws_documentation>">>
  \o Cond(fd.throwsDocumentation, <<"Yes">>, <<"No">>)
  \o <<"</throws_documentation>", "\n      ", "<deprecation_notes>">>
  \o Cond(fd.deprecationNotes, <<"Yes">>, <<"No">>)
  \o <<"</deprecation_notes>", "\n      ", "<since_version>">>
  \o Or(fd.sinceVersion, <<"Not tracked">>)
  \o <<"</since_version>", "\n    ", "</api_documentation>", "\n    ", "<examples_config>", "\n      ",
       "<example_complexity level=\"">>
  \o NumStr(fd.exampleComplexity)
  \o <<"\">">>
  \o getComplexityLabel_documentation(fd.exampleComplexity)
  \o <<"</example_complexity>", "\n      ", "<include_edge_cases>">>
  \o Cond(fd.includeEdgeCases, <<"Yes">>, <<"No">>)
  \o <<"</include_edge_cases>", "\n      ", "<include_error_handling>">>
  \o Cond(fd.includeErrorHandling, <<"Yes">>, <<"No">>)
  \o <<"</include_error_handling>", "\n      ", "<runable_examples>">>
  \o Cond(fd.runableExamples, <<"Yes">>, <<"No">>)
  \o <<"</runable_examples>", "\n      ", "<testable_examples>">>
  \o Cond(fd.testableExamples, <<"Yes">>, <<"No">>)
  \o <<"</testable_examples>", "\n    ", "</examples_config>", "\n    ", "<integration>", "\n      ",
       "<typedoc_config>">>
  \o Or(fd.typedocConfig, <<"Not using">>)
  \o <<"</typedoc_config>", "\n      ", "<jsdoc_tags>">>
  \o Or(fd.jsdocTags, <<"Standard tags">>)
  \o <<"</jsdoc_tags>", "\n      ", "<openapi_spec>">>
  \o Cond(fd.openApiSpec, <<"Yes">>, <<"No">>)
  \o <<"</openapi_spec>", "\n      ", "<postman_collection>">>
  \o Cond(fd.postmanCollection, <<"Yes">>, <<"No">>)
  \o <<"</postman_collection>", "\n      ", "<readme_template>">>
  \o Or(fd.readmeTemplate, <<"None">>)
  \o <<"</readme_template>", "\n    ", "</integration>", "\n    ", "<maintenance>", "\n      ",
       "<versioning_strategy>">>
  \o Or(fd.versioningStrategy, <<"None">>)
  \o <<"</versioning_strategy>", "\n      ", "<changelog_integration>">>
  \o Cond(fd.changelogIntegration, <<"Yes">>, <<"No">>)
  \o <<"</changelog_integration>", "\n      ", "<auto_generate_from_types>">>
  \o Cond(fd.autoGenerateFromTypes, <<"Yes">>, <<"No">>)
  \o <<"</auto_generate_from_types>", "\n      ", "<link_to_source_code>">>
  \o Cond(fd.linkToSourceCode, <<"Yes">>, <<"No">>)
  \o <<"</link_to_source_code>", "\n      ", "<last_updated_timestamp>">>
  \o Cond(fd.lastUpdatedTimestamp, <<"Yes">>, <<"No">>)
  \o <<"</last_updated_timestamp>", "\n    ", "</maintenance>", "\n  ", "</advanced_config>", "\n",
       "</task_card>">>

\* src/pages/testing.tsx:61-105  defaultFormData
defaultFormData_testing ==
  [  punchcardTitle |-> <<>>,
     documentationDepth |-> 3,
     targetCode |-> <<>>,
     testingGoal |-> <<>>,
     testTypes |-> <<>>,
     existingTests |-> <<>>,
     testingFramework |-> <<>>,
     codebaseContext |-> <<>>,
     coverage |-> 3,
     thoroughness |-> 3,
     mockingLevel |-> 3,
     filesToIgnore |-> <<>>,
     extraInfo |-> <<>>,
     unitTestStyle |-> <<>>,
     assertionLibrary |-> <<>>,
     describeBlockStructure |-> TRUE,
     testNaming |-> <<>>,
     arrangeActAssert |-> TRUE,
     integrationScope |-> <<>>,
     databaseStrategy |-> <<>>,
     apiMocking |-> <<>>,
     serviceIsolation |-> TRUE,
     transactionRollback |-> TRUE,
     e2eFramework |-> <<>>,
     browserTargets |-> <<>>,
     headlessMode |-> TRUE,
     screenshotOnFailure |-> TRUE,
     videoRecording |-> FALSE,
     mockingFramework |-> <<>>,
     mockDepth |-> 3,
     spyFunctions |-> TRUE,
     stubExternalCalls |-> TRUE,
     mockTimers |-> FALSE,
     coverageThreshold |-> <<>>,
     branchCoverage |-> TRUE,
     lineCoverage |-> TRUE,
     functionCoverage |-> TRUE,
     excludeFromCoverage |-> <<>>,
     parallelTests |-> FALSE,
     retryFlaky |-> FALSE,
     testTimeout |-> <<>>,
     reportFormat |-> <<>>,
     failFast |-> FALSE ]

\* src/pages/testing.tsx:112-119  useState of advancedSections
advancedSections_testing ==
  [ unit |-> FALSE, integration |-> FALSE, e2e |-> FALSE, mocking |-> FALSE, coverage |-> FALSE, cicd |-> FALSE ]

\* src/pages/testing.tsx:139-142  getCoverageLabel
getCoverageLabel_testing(val) ==
  LabelAt(<<"Minimal - key paths only",
            "Basic - happy paths",
            "Standard - most cases",
            "High - edge cases included",
            "Comprehensive - 90%+ coverage">>, val)

\* src/pages/testing.tsx:144-147  getThoroughnessLabel
getThoroughnessLabel_testing(val) ==
  LabelAt(<<"Quick smoke tests",
            "Basic validation",
            "Standard testing",
            "Thorough testing",
            "Exhaustive - all scenarios">>, val)

\* src/pages/testing.tsx:149-152  getMockingLabel
getMockingLabel_testing(val) ==
  LabelAt(<<"No mocking - real dependencies",
            "Minimal mocking",
            "Standard mocking",
            "Heavy mocking",
            "Full isolation - mock everything">>, val)

\* src/pages/testing.tsx:154-157  getMockDepthLabel
getMockDepthLabel_testing(val) ==
  LabelAt(<<"Shallow - direct deps only",
            "Basic",
            "Standard",
            "Deep",
            "Complete - all layers">>, val)

\* src/pages/testing.tsx:159-162  getDocDepthLabel
getDocDepthLabel_testing(val) ==
  LabelAt(<<"Minimal - snappy dot points",
            "Brief - key points only",
            "Standard - balanced detail",
            "Detailed - thorough coverage",
            "Deep - comprehensive documentation">>, val)

\* src/pages/testing.tsx:173-261  generateXML: the template literal
generateXML_testing(fd) ==
     <<"<task_card type=\"testing\"", " title=\"">>
  \o Or(fd.punchcardTitle, <<"Untitled Testing">>)
  \o <<"\">\n  ", "<meta_instruction>",
       "\n    Follow this testing workflow:\n    0. ANALYSIS: Understand the code to be tested. Identify functions, classes, edge cases, and dependencies.\n    1. STRATEGY: Plan the testing approach based on the test types requested.\n    2. SETUP: Configure test environment, mocks, and fixtures as needed.\n    3. WRITE TESTS: Create tests following the specified patterns and conventions.\n    4. VERIFY: Ensure tests pass and provide meaningful coverage.\n    5. DOCUMENT: Add clear test descriptions and comments where helpful.\n  ",
       "</meta_instruction>", "\n\n  ", "<documentation_requirement>", "\n    ", "<instruction>",
       "After completing this task, create a markdown file documenting the work done.", "</instruction>",
       "\n    ", "<output_path>", "punchcards/">>
  \o sanitizeFilename(fd.punchcardTitle)
  \o <<".md", "</output_path>", "\n    ", "<detail_level level=\"">>
  \o NumStr(fd.documentationDepth)
  \o <<"\">">>
  \o getDocDepthLabel_testing(fd.documentationDepth)
  \o <<"</detail_level>", "\n    ", "<format>",
       "\n      Level 1: Task title, one-line summary, files changed (bullet list)\n      Level 2: Above + brief problem/solution description\n      Level 3: Above + key decisions made, testing notes\n      Level 4: Above + detailed reasoning, edge cases considered, related issues\n      Level 5: Above + full context, alternative approaches considered, future considerations\n    ",
       "</format>", "\n  ", "</documentation_requirement>", "\n\n  ", "<testing_details>", "\n    ",
       "<target_code>">>
  \o fd.targetCode
  \o <<"</target_code>", "\n    ", "<testing_goal>">>
  \o fd.testingGoal
  \o <<"</testing_goal>", "\n    ", "<test_types>">>
  \o fd.testTypes
  \o <<"</test_types>", "\n    ", "<existing_tests>">>
  \o Or(fd.existingTests, <<"None">>)
  \o <<"</existing_tests>", "\n    ", "<testing_framework>">>
  \o Or(fd.testingFramework, <<"Auto-detect">>)
  \o <<"</testing_framework>", "\n    ", "<codebase_context>">>
  \o Or(fd.codebaseContext, <<"Not specified">>)
  \o <<"</codebase_context>", "\n  ", "</testing_details>", "\n\n  ", "<preferences>", "\n    ",
       "<coverage_goal level=\"">>
  \o NumStr(fd.coverage)
  \o <<"\">">>
  \o getCoverageLabel_testing(fd.coverage)
  \o <<"</coverage_goal>", "\n    ", "<thoroughness level=\"">>
  \o NumStr(fd.thoroughness)
  \o <<"\">">>
  \o getThoroughnessLabel_testing(fd.thoroughness)
  \o <<"</thoroughness>", "\n    ", "<mocking_level level=\"">>
  \o NumStr(fd.mockingLevel)
  \o <<"\">">>
  \o getMockingLabel_testing(fd.mockingLevel)
  \o <<"</mocking_level>", "\n    ", "<files_to_ignore>">>
  \o Or(fd.filesToIgnore, <<"None">>)
  \o <<"</files_to_ignore>", "\n    ", "<extra_info>">>
  \o Or(fd.extraInfo, <<"None">>)
  \o <<"</extra_info>", "\n  ", "</preferences>", "\n\n  ", "<advanced_config>", "\n    ", "<unit_tests>",
       "\n      ", "<test_style>">>
  \o Or(fd.unitTestStyle, <<"BDD style">>)
  \o <<"</test_style>", "\n      ", "<assertion_library>">>
  \o Or(fd.assertionLibrary, <<"Framework default">>)
  \o <<"</assertion_library>", "\n      ", "<describe_block_structure>">>
  \o Cond(fd.describeBlockStructure, <<"Yes">>, <<"No">>)
  \o <<"</describe_block_structure>", "\n      ", "<test_naming_convention>">>
  \o Or(fd.testNaming, <<"should_X_when_Y">>)
  \o <<"</test_naming_convention>", "\n      ", "<arrange_act_assert>">>
  \o Cond(fd.arrangeActAssert, <<"Yes">>, <<"No">>)
  \o <<"</arrange_act_assert>", "\n    ", "</unit_tests>", "\n    ", "<integration_tests>", "\n      ",
       "<scope>">>
  \o Or(fd.integrationScope, <<"Not specified">>)
  \o <<"</scope>", "\n      ", "<database_strategy>">>
  \o Or(fd.databaseStrategy, <<"In-memory/mock">>)
  \o <<"</database_strategy>", "\n      ", "<api_mocking>">>
  \o Or(fd.apiMocking, <<"Mock external APIs">>)
  \o <<"</api_mocking>", "\n      ", "<service_isolation>">>
  \o Cond(fd.serviceIsolation, <<"Yes">>, <<"No">>)
  \o <<"</service_isolation>", "\n      ", "<transaction_rollback>">>
  \o Cond(fd.transactionRollback, <<"Yes">>, <<"No">>)
  \o <<"</transaction_rollback>", "\n    ", "</integration_tests>", "\n    ", "<e2e_tests>", "\n      ",
       "<framework>">>
  \o Or(fd.e2eFramework, <<"Not specified">>)
  \o <<"</framework>", "\n      ", "<browser_targets>">>
  \o Or(fd.browserTargets, <<"Chrome">>)
  \o <<"</browser_targets>", "\n      ", "<headless_mode>">>
  \o Cond(fd.headlessMode, <<"Yes">>, <<"No">>)
  \o <<"</headless_mode>", "\n      ", "<screenshot_on_failure>">>
  \o Cond(fd.screenshotOnFailure, <<"Yes">>, <<"No">>)
  \o <<"</screenshot_on_failure>", "\n      ", "<video_recording>">>
  \o Cond(fd.videoRecording, <<"Yes">>, <<"No">>)
  \o <<"</video_recording>", "\n    ", "</e2e_tests>", "\n    ", "<mocking_config>", "\n      ",
       "<mocking_framework>">>
  \o Or(fd.mockingFramework, <<"Framework default">>)
  \o <<"</mocking_framework>", "\n      ", "<mock_depth level=\"">>
  \o NumStr(fd.mockDepth)
  \o <<"\">">>
  \o getMockDepthLabel_testing(fd.mockDepth)
  \o <<"</mock_depth>", "\n      ", "<spy_functions>">>
  \o Cond(fd.spyFunctions, <<"Yes">>, <<"No">>)
  \o <<"</spy_functions>", "\n      ", "<stub_external_calls>">>
  \o Cond(fd.stubExternalCalls, <<"Yes">>, <<"No">>)
  \o <<"</stub_external_calls>", "\n      ", "<mock_timers>">>
  \o Cond(fd.mockTimers, <<"Yes">>, <<"No">>)
  \o <<"</mock_timers>", "\n    ", "</mocking_config>", "\n    ", "<coverage_config>", "\n      ",
       "<coverage_threshold>">>
  \o Or(fd.coverageThreshold, <<"No minimum">>)
  \o <<"</coverage_threshold>", "\n      ", "<branch_coverage>">>
  \o Cond(fd.branchCoverage, <<"Yes">>, <<"No">>)
  \o <<"</branch_coverage>", "\n      ", "<line_coverage>">>
  \o Cond(fd.lineCoverage, <<"Yes">>, <<"No">>)
  \o <<"</line_coverage>", "\n      ", "<function_coverage>">>
  \o Cond(fd.functionCoverage, <<"Yes">>, <<"No">>)
  \o <<"</function_coverage>", "\n      ", "<exclude_from_coverage>">>
  \o Or(fd.excludeFromCoverage, <<"None">>)
  \o <<"</exclude_from_coverage>", "\n    ", "</coverage_config>", "\n    ", "<ci_cd_config>", "\n      ",
       "<parallel_tests>">>
  \o Cond(fd.parallelTests, <<"Yes">>, <<"No">>)
  \o <<"</parallel_tests>", "\n      ", "<retry_flaky_tests>">>
  \o Cond(fd.retryFlaky, <<"Yes">>, <<"No">>)
  \o <<"</retry_flaky_tests>", "\n      ", "<test_timeout>">>
  \o Or(fd.testTimeout, <<"Framework default">>)
  \o <<"</test_timeout>", "\n      ", "<report_format>">>
  \o Or(fd.reportFormat, <<"Console + HTML">>)
  \o <<"</report_format>", "\n      ", "<fail_fast>">>
  \o Cond(fd.failFast, <<"Yes">>, <<"No">>)
  \o <<"</fail_fast>", "\n    ", "</ci_cd_config>", "\n  ", "</advanced_config>", "\n", "</task_card>">>

\* src/pages/cleanup.tsx:657-701  defaultFormData
defaultFormData_security_audit ==
  [  punchcardTitle |-> <<>>,
     documentationDepth |-> 3,
     targetCode |-> <<>>,
     auditScope |-> <<>>,
     securityConcerns |-> <<>>,
     appType |-> <<>>,
     sensitiveData |-> <<>>,
     existingMeasures |-> <<>>,
     severity |-> 3,
     thoroughness |-> 3,
     complianceLevel |-> 3,
     filesToIgnore |-> <<>>,
     extraInfo |-> <<>>,
     checkInjection |-> TRUE,
     checkXss |-> TRUE,
     checkCsrf |-> TRUE,
     checkAuth |-> TRUE,
     checkCrypto |-> TRUE,
     checkDataExposure |-> TRUE,
     checkSensitiveLogging |-> TRUE,
     checkEncryption |-> TRUE,
     checkPii |-> TRUE,
     checkSecretManagement |-> TRUE,
     checkRbac |-> TRUE,
     checkPrivilegeEscalation |-> TRUE,
     checkSessionManagement |-> TRUE,
     checkApiSecurity |-> TRUE,
     checkInputValidation |-> TRUE,
     checkDependencies |-> TRUE,
     checkConfig |-> TRUE,
     checkHeaders |-> TRUE,
     checkCors |-> TRUE,
     checkTls |-> TRUE,
     owaspTop10 |-> TRUE,
     sansTop25 |-> FALSE,
     gdprCompliance |-> FALSE,
     hipaaCompliance |-> FALSE,
     pciDss |-> FALSE,
     reportFormat |-> <<>>,
     includeCwe |-> TRUE,
     includeCvss |-> FALSE,
     includeRemediation |-> TRUE,
     prioritizeBySeverity |-> TRUE ]

\* src/pages/cleanup.tsx:708-715  useState of advancedSections
advancedSections_security_audit ==
  [ vulnerabilities |-> FALSE, dataSecurity |-> FALSE, accessControl |-> FALSE, infrastructure |-> FALSE, compliance |-> FALSE, output |-> FALSE ]

\* src/pages/cleanup.tsx:735-738  getSeverityLabel
getSeverityLabel_security_audit(val) ==
  LabelAt(<<"Critical only",
            "Critical + High",
            "Medium and above",
            "Low and above",
            "All including informational">>, val)

\* src/pages/cleanup.tsx:740-743  getThoroughnessLabel
getThoroughnessLabel_security_audit(val) ==
  LabelAt(<<"Quick scan - obvious issues",
            "Basic review",
            "Standard audit",
            "Deep analysis",
            "Exhaustive - pentester level">>, val)

\* src/pages/cleanup.tsx:745-748  getComplianceLabel
getComplianceLabel_security_audit(val) ==
  LabelAt(<<"No compliance needed",
            "Basic standards",
            "Industry standards",
            "Strict compliance",
            "Regulatory audit ready">>, val)

\* src/pages/cleanup.tsx:750-753  getDocDepthLabel
getDocDepthLabel_security_audit(val) ==
  LabelAt(<<"Minimal - snappy dot points",
            "Brief - key points only",
            "Standard - balanced detail",
            "Detailed - thorough coverage",
            "Deep - comprehensive documentation">>, val)

\* src/pages/cleanup.tsx:764-852  generateXML: the template literal
generateXML_security_audit(fd) ==
     <<"<task_card type=\"security_audit\"", " title=\"">>
  \o Or(fd.punchcardTitle, <<"Untitled Security Audit">>)
  \o <<"\">\n  ", "<meta_instruction>",
       "\n    Follow this security audit workflow:\n    0. RECONNAISSANCE: Map the codebase structure, entry points, and data flows.\n    1. THREAT MODEL: Identify potential threat vectors based on app type and data handled.\n    2. STATIC ANALYSIS: Review code for security vulnerabilities and anti-patterns.\n    3. CONFIGURATION REVIEW: Check security configurations, headers, and settings.\n    4. DEPENDENCY CHECK: Audit third-party dependencies for known vulnerabilities.\n    5. REPORT: Document findings with severity, CWE references, and remediation steps.\n  ",
       "</meta_instruction>", "\n\n  ", "<documentation_requirement>", "\n    ", "<instruction>",
       "After completing this task, create a markdown file documenting the work done.", "</instruction>",
       "\n    ", "<output_path>", "punchcards/">>
  \o sanitizeFilename(fd.punchcardTitle)
  \o <<".md", "</output_path>", "\n    ", "<detail_level level=\"">>
  \o NumStr(fd.documentationDepth)
  \o <<"\">">>
  \o getDocDepthLabel_security_audit(fd.documentationDepth)
  \o <<"</detail_level>", "\n    ", "<format>",
       "\n      Level 1: Task title, one-line summary, files changed (bullet list)\n      Level 2: Above + brief problem/solution description\n      Level 3: Above + key decisions made, testing notes\n      Level 4: Above + detailed reasoning, edge cases considered, related issues\n      Level 5: Above + full context, alternative approaches considered, future considerations\n    ",
       "</format>", "\n  ", "</documentation_requirement>", "\n\n  ", "<audit_details>", "\n    ",
       "<target_code>">>
  \o fd.targetCode
  \o <<"</target_code>", "\n    ", "<audit_scope>">>
  \o fd.auditScope
  \o <<"</audit_scope>", "\n    ", "<security_concerns>">>
  \o Or(fd.securityConcerns, <<"General security review">>)
  \o <<"</security_concerns>", "\n    ", "<application_type>">>
  \o Or(fd.appType, <<"Not specified">>)
  \o <<"</application_type>", "\n    ", "<sensitive_data_handled>">>
  \o Or(fd.sensitiveData, <<"Not specified">>)
  \o <<"</sensitive_data_handled>", "\n    ", "<existing_security_measures>">>
  \o Or(fd.existingMeasures, <<"None documented">>)
  \o <<"</existing_security_measures>", "\n  ", "</audit_details>", "\n\n  ", "<preferences>", "\n    ",
       "<minimum_severity level=\"">>
  \o NumStr(fd.severity)
  \o <<"\">">>
  \o getSeverityLabel_security_audit(fd.severity)
  \o <<"</minimum_severity>", "\n    ", "<thoroughness level=\"">>
  \o NumStr(fd.thoroughness)
  \o <<"\">">>
  \o getThoroughnessLabel_security_audit(fd.thoroughness)
  \o <<"</thoroughness>", "\n    ", "<compliance_level level=\"">>
  \o NumStr(fd.complianceLevel)
  \o <<"\">">>
  \o getComplianceLabel_security_audit(fd.complianceLevel)
  \o <<"</compliance_level>", "\n    ", "<files_to_ignore>">>
  \o Or(fd.filesToIgnore, <<"None">>)
  \o <<"</files_to_ignore>", "\n    ", "<extra_info>">>
  \o Or(fd.extraInfo, <<"None">>)
  \o <<"</extra_info>", "\n  ", "</preferences>", "\n\n  ", "<advanced_config>", "\n    ",
       "<vulnerability_checks>", "\n      ", "<injection_attacks>">>
  \o Cond(fd.checkInjection, <<"Check">>, <<"Skip">>)
  \o <<"</injection_attacks>", "\n      ", "<xss_vulnerabilities>">>
  \o Cond(fd.checkXss, <<"Check">>, <<"Skip">>)
  \o <<"</xss_vulnerabilities>", "\n      ", "<csrf_protection>">>
  \o Cond(fd.checkCsrf, <<"Check">>, <<"Skip">>)
  \o <<"</csrf_protection>", "\n      ", "<authentication_issues>">>
  \o Cond(fd.checkAuth, <<"Check">>, <<"Skip">>)
  \o <<"</authentication_issues>", "\n      ", "<cryptographic_failures>">>
  \o Cond(fd.checkCrypto, <<"Check">>, <<"Skip">>)
  \o <<"</cryptographic_failures>", "\n    ", "</vulnerability_checks>", "\n    ", "<data_security>",
       "\n      ", "<sensitive_data_exposure>">>
  \o Cond(fd.checkDataExposure, <<"Check">>, <<"Skip">>)
  \o <<"</sensitive_data_exposure>", "\n      ", "<sensitive_logging>">>
  \o Cond(fd.checkSensitiveLogging, <<"Check">>, <<"Skip">>)
  \o <<"</sensitive_logging>", "\n      ", "<encryption_at_rest_transit>">>
  \o Cond(fd.checkEncryption, <<"Check">>, <<"Skip">>)
  \o <<"</encryption_at_rest_transit>", "\n      ", "<pii_handling>">>
  \o Cond(fd.checkPii, <<"Check">>, <<"Skip">>)
  \o <<"</pii_handling>", "\n      ", "<secret_management>">>
  \o Cond(fd.checkSecretManagement, <<"Check">>, <<"Skip">>)
  \o <<"</secret_management>", "\n    ", "</data_security>", "\n    ", "<access_control>", "\n      ",
       "<rbac_implementation>">>
  \o Cond(fd.checkRbac, <<"Check">>, <<"Skip">>)
  \o <<"</rbac_implementation>", "\n      ", "<privilege_escalation>">>
  \o Cond(fd.checkPrivilegeEscalation, <<"Check">>, <<"Skip">>)
  \o <<"</privilege_escalation>", "\n      ", "<session_management>">>
  \o Cond(fd.checkSessionManagement, <<"Check">>, <<"Skip">>)
  \o <<"</session_management>", "\n      ", "<api_security>">>
  \o Cond(fd.checkApiSecurity, <<"Check">>, <<"Skip">>)
  \o <<"</api_security>", "\n      ", "<input_validation>">>
  \o Cond(fd.checkInputValidation, <<"Check">>, <<"Skip">>)
  \o <<"</input_validation>", "\n    ", "</access_control>", "\n    ", "<infrastructure>", "\n      ",
       "<dependency_vulnerabilities>">>
  \o Cond(fd.checkDependencies, <<"Check">>, <<"Skip">>)
  \o <<"</dependency_vulnerabilities>", "\n      ", "<security_configuration>">>
  \o Cond(fd.checkConfig, <<"Check">>, <<"Skip">>)
  \o <<"</security_configuration>", "\n      ", "<security_headers>">>
  \o Cond(fd.checkHeaders, <<"Check">>, <<"Skip">>)
  \o <<"</security_headers>", "\n      ", "<cors_policy>">>
  \o Cond(fd.checkCors, <<"Check">>, <<"Skip">>)
  \o <<"</cors_policy>", "\n      ", "<tls_configuration>">>
  \o Cond(fd.checkTls, <<"Check">>, <<"Skip">>)
  \o <<"</tls_configuration>", "\n    ", "</infrastructure>", "\n    ", "<compliance_frameworks>", "\n      ",
       "<owasp_top_10>">>
  \o Cond(fd.owaspTop10, <<"Apply">>, <<"Skip">>)
  \o <<"</owasp_top_10>", "\n      ", "<sans_top_25>">>
  \o Cond(fd.sansTop25, <<"Apply">>, <<"Skip">>)
  \o <<"</sans_top_25>", "\n      ", "<gdpr_compliance>">>
  \o Cond(fd.gdprCompliance, <<"Apply">>, <<"Skip">>)
  \o <<"</gdpr_compliance>", "\n      ", "<hipaa_compliance>">>
  \o Cond(fd.hipaaCompliance, <<"Apply">>, <<"Skip">>)
  \o <<"</hipaa_compliance>", "\n      ", "<pci_dss>">>
  \o Cond(fd.pciDss, <<"Apply">>, <<"Skip">>)
  \o <<"</pci_dss>", "\n    ", "</compliance_frameworks>", "\n    ", "<output_config>", "\n      ",
       "<report_format>">>
  \o Or(fd.reportFormat, <<"Markdown with sections">>)
  \o <<"</report_format>", "\n      ", "<include_cwe_references>">>
  \o Cond(fd.includeCwe, <<"Yes">>, <<"No">>)
  \o <<"</include_cwe_references>", "\n      ", "<include_cvss_scores>">>
  \o Cond(fd.includeCvss, <<"Yes">>, <<"No">>)
  \o <<"</include_cvss_scores>", "\n      ", "<include_remediation_steps>">>
  \o Cond(fd.includeRemediation, <<"Yes">>, <<"No">>)
  \o <<"</include_remediation_steps>", "\n      ", "<prioritize_by_severity>">>
  \o Cond(fd.prioritizeBySeverity, <<"Yes">>, <<"No">>)
  \o <<"</prioritize_by_severity>", "\n    ", "</output_config>", "\n  ", "</advanced_config>", "\n",
       "</task_card>">>

\* src/pages/cleanup.tsx:58-100  defaultFormData
defaultFormData_cleanup ==
  [  targetCode |-> <<>>,
     cleanupGoals |-> <<>>,
     cleanupTypes |-> <<>>,
     codebaseAge |-> <<>>,
     knownIssues |-> <<>>,
     constraints |-> <<>>,
     aggressiveness |-> 3,
     preserveComments |-> 3,
     testingRequired |-> 3,
     filesToIgnore |-> <<>>,
     extraInfo |-> <<>>,
     removeUnusedImports |-> TRUE,
     removeUnusedVariables |-> TRUE,
     removeUnusedFunctions |-> TRUE,
     removeUnreachableCode |-> TRUE,
     removeDeprecatedCode |-> FALSE,
     consistentIndentation |-> TRUE,
     lineEndings |-> <<>>,
     trailingWhitespace |-> TRUE,
     maxLineLength |-> <<>>,
     bracesStyle |-> <<>>,
     simplifyConditionals |-> TRUE,
     extractMagicNumbers |-> FALSE,
     removeNestedTernaries |-> TRUE,
     flattenCallbacks |-> FALSE,
     consolidateDuplicates |-> TRUE,
     removeUnusedDeps |-> TRUE,
     updateOutdatedDeps |-> FALSE,
     consolidateSimilarDeps |-> FALSE,
     removePeerDepWarnings |-> FALSE,
     auditVulnerabilities |-> TRUE,
     removeCommentedCode |-> TRUE,
     updateStaleComments |-> FALSE,
     removeObviousComments |-> FALSE,
     standardizeTodoFormat |-> FALSE,
     documentRemainingTodos |-> FALSE,
     removeEmptyFiles |-> TRUE,
     consolidateConfigs |-> FALSE,
     organizeImports |-> TRUE,
     removeBackupFiles |-> TRUE,
     standardizeNaming |-> FALSE ]

\* src/pages/cleanup.tsx:107-114  useState of advancedSections
advancedSections_cleanup ==
  [ deadCode |-> FALSE, formatting |-> FALSE, structure |-> FALSE, dependencies |-> FALSE, comments |-> FALSE, files |-> FALSE ]

\* src/pages/cleanup.tsx:134-137  getAggressivenessLabel
getAggressivenessLabel_cleanup(val) ==
  LabelAt(<<"Conservative - obvious issues only",
            "Light cleanup",
            "Standard cleanup",
            "Thorough cleanup",
            "Aggressive - maximum cleanup">>, val)

\* src/pages/cleanup.tsx:139-142  getCommentsLabel
getCommentsLabel_cleanup(val) ==
  LabelAt(<<"Remove most comments",
            "Remove stale comments",
            "Keep useful comments",
            "Preserve most comments",
            "Preserve all comments">>, val)

\* src/pages/cleanup.tsx:144-147  getTestingLabel
getTestingLabel_cleanup(val) ==
  LabelAt(<<"No testing needed",
            "Manual spot check",
            "Run existing tests",
            "Full test coverage",
            "Requires new tests for changes">>, val)

\* src/pages/cleanup.tsx:149-224  generateXML: the template literal
generateXML_cleanup(fd) ==
     <<"<task_card type=\"cleanup\"", ">\n  ", "<meta_instruction>",
       "\n    Follow this code cleanup workflow:\n    0. INVENTORY: Survey the codebase for issues matching the cleanup goals.\n    1. PRIORITIZE: Identify highest-impact cleanup opportunities.\n    2. PLAN: Create a cleanup plan that won't break functionality.\n    3. EXECUTE: Apply cleanups systematically, one category at a time.\n    4. VERIFY: Ensure no regressions were introduced.\n    5. DOCUMENT: Note any significant changes or remaining issues.\n  ",
       "</meta_instruction>", "\n\n  ", "<cleanup_details>", "\n    ", "<target_code>">>
  \o fd.targetCode
  \o <<"</target_code>", "\n    ", "<cleanup_goals>">>
  \o fd.cleanupGoals
  \o <<"</cleanup_goals>", "\n    ", "<cleanup_types>">>
  \o fd.cleanupTypes
  \o <<"</cleanup_types>", "\n    ", "<codebase_age>">>
  \o Or(fd.codebaseAge, <<"Not specified">>)
  \o <<"</codebase_age>", "\n    ", "<known_issues>">>
  \o Or(fd.knownIssues, <<"None specified">>)
  \o <<"</known_issues>", "\n    ", "<constraints>">>
  \o Or(fd.constraints, <<"None">>)
  \o <<"</constraints>", "\n  ", "</cleanup_details>", "\n\n  ", "<preferences>", "\n    ",
       "<aggressiveness level=\"">>
  \o NumStr(fd.aggressiveness)
  \o <<"\">">>
  \o getAggressivenessLabel_cleanup(fd.aggressiveness)
  \o <<"</aggressiveness>", "\n    ", "<preserve_comments level=\"">>
  \o NumStr(fd.preserveComments)
  \o <<"\">">>
  \o getCommentsLabel_cleanup(fd.preserveComments)
  \o <<"</preserve_comments>", "\n    ", "<testing_required level=\"">>
  \o NumStr(fd.testingRequired)
  \o <<"\">">>
  \o getTestingLabel_cleanup(fd.testingRequired)
  \o <<"</testing_required>", "\n    ", "<files_to_ignore>">>
  \o Or(fd.filesToIgnore, <<"None">>)
  \o <<"</files_to_ignore>", "\n    ", "<extra_info>">>
  \o Or(fd.extraInfo, <<"None">>)
  \o <<"</extra_info>", "\n  ", "</preferences>", "\n\n  ", "<advanced_config>", "\n    ",
       "<dead_code_removal>", "\n      ", "<remove_unused_imports>">>
  \o Cond(fd.removeUnusedImports, <<"Yes">>, <<"No">>)
  \o <<"</remove_unused_imports>", "\n      ", "<remove_unused_variables>">>
  \o Cond(fd.removeUnusedVariables, <<"Yes">>, <<"No">>)
  \o <<"</remove_unused_variables>", "\n      ", "<remove_unused_functions>">>
  \o Cond(fd.removeUnusedFunctions, <<"Yes">>, <<"No">>)
  \o <<"</remove_unused_functions>", "\n      ", "<remove_unreachable_code>">>
  \o Cond(fd.removeUnreachableCode, <<"Yes">>, <<"No">>)
  \o <<"</remove_unreachable_code>", "\n      ", "<remove_deprecated_code>">>
  \o Cond(fd.removeDeprecatedCode, <<"Yes">>, <<"No">>)
  \o <<"</remove_deprecated_code>", "\n    ", "</dead_code_removal>", "\n    ", "<formatting>", "\n      ",
       "<consistent_indentation>">>
  \o Cond(fd.consistentIndentation, <<"Yes">>, <<"No">>)
  \o <<"</consistent_indentation>", "\n      ", "<line_endings>">>
  \o Or(fd.lineEndings, <<"LF (Unix)">>)
  \o <<"</line_endings>", "\n      ", "<trailing_whitespace>">>
  \o Cond(fd.trailingWhitespace, <<"Remove">>, <<"Keep">>)
  \o <<"</trailing_whitespace>", "\n      ", "<max_line_length>">>
  \o Or(fd.maxLineLength, <<"No limit">>)
  \o <<"</max_line_length>", "\n      ", "<braces_style>">>
  \o Or(fd.bracesStyle, <<"Keep existing">>)
  \o <<"</braces_style>", "\n    ", "</formatting>", "\n    ", "<code_structure>", "\n      ",
       "<simplify_conditionals>">>
  \o Cond(fd.simplifyConditionals, <<"Yes">>, <<"No">>)
  \o <<"</simplify_conditionals>", "\n      ", "<extract_magic_numbers>">>
  \o Cond(fd.extractMagicNumbers, <<"Yes">>, <<"No">>)
  \o <<"</extract_magic_numbers>", "\n      ", "<remove_nested_ternaries>">>
  \o Cond(fd.removeNestedTernaries, <<"Yes">>, <<"No">>)
  \o <<"</remove_nested_ternaries>", "\n      ", "<flatten_callbacks>">>
  \o Cond(fd.flattenCallbacks, <<"Yes">>, <<"No">>)
  \o <<"</flatten_callbacks>", "\n      ", "<consolidate_duplicates>">>
  \o Cond(fd.consolidateDuplicates, <<"Yes">>, <<"No">>)
  \o <<"</consolidate_duplicates>", "\n    ", "</code_structure>", "\n    ", "<dependencies>", "\n      ",
       "<remove_unused_deps>">>
  \o Cond(fd.removeUnusedDeps, <<"Yes">>, <<"No">>)
  \o <<"</remove_unused_deps>", "\n      ", "<update_outdated_deps>">>
  \o Cond(fd.updateOutdatedDeps, <<"Yes">>, <<"No">>)
  \o <<"</update_outdated_deps>", "\n      ", "<consolidate_similar_deps>">>
  \o Cond(fd.consolidateSimilarDeps, <<"Yes">>, <<"No">>)
  \o <<"</consolidate_similar_deps>", "\n      ", "<remove_peer_dep_warnings>">>
  \o Cond(fd.removePeerDepWarnings, <<"Yes">>, <<"No">>)
  \o <<"</remove_peer_dep_warnings>", "\n      ", "<audit_vulnerabilities>">>
  \o Cond(fd.auditVulnerabilities, <<"Yes">>, <<"No">>)
  \o <<"</audit_vulnerabilities>", "\n    ", "</dependencies>", "\n    ", "<comments_cleanup>", "\n      ",
       "<remove_commented_code>">>
  \o Cond(fd.removeCommentedCode, <<"Yes">>, <<"No">>)
  \o <<"</remove_commented_code>", "\n      ", "<update_stale_comments>">>
  \o Cond(fd.updateStaleComments, <<"Yes">>, <<"No">>)
  \o <<"</update_stale_comments>", "\n      ", "<remove_obvious_comments>">>
  \o Cond(fd.removeObviousComments, <<"Yes">>, <<"No">>)
  \o <<"</remove_obvious_comments>", "\n      ", "<standardize_todo_format>">>
  \o Cond(fd.standardizeTodoFormat, <<"Yes">>, <<"No">>)
  \o <<"</standardize_todo_format>", "\n      ", "<document_remaining_todos>">>
  \o Cond(fd.documentRemainingTodos, <<"Yes">>, <<"No">>)
  \o <<"</document_remaining_todos>", "\n    ", "</comments_cleanup>", "\n    ", "<file_organization>",
       "\n      ", "<remove_empty_files>">>
  \o Cond(fd.removeEmptyFiles, <<"Yes">>, <<"No">>)
  \o <<"</remove_empty_files>", "\n      ", "<consolidate_configs>">>
  \o Cond(fd.consolidateConfigs, <<"Yes">>, <<"No">>)
  \o <<"</consolidate_configs>", "\n      ", "<organize_imports>">>
  \o Cond(fd.organizeImports, <<"Yes">>, <<"No">>)
  \o <<"</organize_imports>", "\n      ", "<remove_backup_files>">>
  \o Cond(fd.removeBackupFiles, <<"Yes">>, <<"No">>)
  \o <<"</remove_backup_files>", "\n      ", "<standardize_naming>">>
  \o Cond(fd.standardizeNaming, <<"Yes">>, <<"No">>)
  \o <<"</standardize_naming>", "\n    ", "</file_organization>", "\n  ", "</advanced_config>", "\n",
       "</task_card>">>

\* src/unnamed/part_001:21-33  defaultFormData
defaultFormData_bug_fix_v1 ==
  [  observedBehavior |-> <<>>,
     expectedBehavior |-> <<>>,
     stepsToReproduce |-> <<>>,
     errorMessages |-> <<>>,
     affectedFiles |-> <<>>,
     environment |-> <<>>,
     urgency |-> 3,
     testingLevel |-> 3,
     creativityLevel |-> 2,
     filesToIgnore |-> <<>>,
     extraInfo |-> <<>> ]

\* src/unnamed/part_001:122-134  resetForm: the object passed to setFormData
resetFormData_bug_fix_v1 ==
  [  observedBehavior |-> <<>>,
     expectedBehavior |-> <<>>,
     stepsToReproduce |-> <<>>,
     errorMessages |-> <<>>,
     affectedFiles |-> <<>>,
     environment |-> <<>>,
     urgency |-> 3,
     testingLevel |-> 3,
     creativityLevel |-> 2,
     filesToIgnore |-> <<>>,
     extraInfo |-> <<>> ]

\* src/unnamed/part_001:48-51  getUrgencyLabel
getUrgencyLabel_bug_fix_v1(val) ==
  LabelAt(<<"Low - whenever",
            "Minor - soon",
            "Normal",
            "High - ASAP",
            "Critical - NOW">>, val)

\* src/unnamed/part_001:53-56  getTestingLabel
getTestingLabel_bug_fix_v1(val) ==
  LabelAt(<<"Minimal - just verify fix",
            "Light - basic tests",
            "Standard",
            "Thorough - edge cases",
            "Exhaustive - full coverage">>, val)

\* src/unnamed/part_001:58-61  getCreativityLabel
getCreativityLabel_bug_fix_v1(val) ==
  LabelAt(<<"Conservative - safest fix",
            "Cautious",
            "Balanced",
            "Open to ideas",
            "Creative - explore options">>, val)

\* src/unnamed/part_001:63-109  generateXML: the template literal
generateXML_bug_fix_v1(fd) ==
     <<"<task_card type=\"bug_fix\"", ">\n    ", "<meta_instruction>",
       "\n        DO NOT fix the code immediately. Follow this strict process:\n        0. CONTEXT STUDY: Deeply analyze the provided codebase. Identify the files involved in the error, trace the execution flow, and understand the expected state vs actual state.\n        1. ANALYZE: Read the provided stack trace/behavior in relation to your codebase study.\n        2. REPRODUCE: Write a standalone reproduction script or test case that fails.\n        3. CONFIRM: Wait for me to run the script and confirm the failure.\n        4. FIX: Apply the fix to the codebase.\n        5. VERIFY: Run the reproduction script again to prove it passes.\n    ",
       "</meta_instruction>", "\n\n    ", "<bug_details>", "\n        ", "<observed_behavior>",
       "\n            ">>
  \o fd.observedBehavior
  \o <<"\n        ", "</observed_behavior>", "\n        ", "<expected_behavior>", "\n            ">>
  \o fd.expectedBehavior
  \o <<"\n        ", "</expected_behavior>", "\n        ", "<steps_to_reproduce>", "\n            ">>
  \o fd.stepsToReproduce
  \o <<"\n        ", "</steps_to_reproduce>", "\n        ", "<error_messages>", "\n            ">>
  \o Or(fd.errorMessages, <<"N/A">>)
  \o <<"\n        ", "</error_messages>", "\n        ", "<affected_files>", "\n            ">>
  \o Or(fd.affectedFiles, <<"Unknown - please investigate">>)
  \o <<"\n        ", "</affected_files>", "\n        ", "<environment>", "\n            ">>
  \o Or(fd.environment, <<"Not specified">>)
  \o <<"\n        ", "</environment>", "\n    ", "</bug_details>", "\n\n    ", "<preferences>", "\n        ",
       "<urgency level=\"">>
  \o NumStr(fd.urgency)
  \o <<"\">">>
  \o getUrgencyLabel_bug_fix_v1(fd.urgency)
  \o <<"</urgency>", "\n        ", "<testing_level level=\"">>
  \o NumStr(fd.testingLevel)
  \o <<"\">">>
  \o getTestingLabel_bug_fix_v1(fd.testingLevel)
  \o <<"</testing_level>", "\n        ", "<creativity_level level=\"">>
  \o NumStr(fd.creativityLevel)
  \o <<"\">">>
  \o getCreativityLabel_bug_fix_v1(fd.creativityLevel)
  \o <<"</creativity_level>", "\n        ", "<files_to_ignore>", "\n            ">>
  \o Or(fd.filesToIgnore, <<"None">>)
  \o <<"\n        ", "</files_to_ignore>", "\n        ", "<extra_info>", "\n            ">>
  \o Or(fd.extraInfo, <<"None">>)
  \o <<"\n        ", "</extra_info>", "\n    ", "</preferences>", "\n", "</task_card>">>

\* src/pages/bug_fix.tsx:646-650  defaultFormData
defaultFormData_bug_fix_v0 ==
  [  observedBehavior |-> <<>>,
     expectedBehavior |-> <<>>,
     stepsToReproduce |-> <<>> ]

\* src/pages/bug_fix.tsx:699-703  resetForm: the object passed to setFormData
resetFormData_bug_fix_v0 ==
  [  observedBehavior |-> <<>>,
     expectedBehavior |-> <<>>,
     stepsToReproduce |-> <<>> ]

\* src/pages/bug_fix.tsx:661-686  generateXML: the template literal
generateXML_bug_fix_v0(fd) ==
     <<"<task_card type=\"bug_fix\"", ">\n    ", "<meta_instruction>",
       "\n        DO NOT fix the code immediately. Follow this strict process:\n        0. CONTEXT STUDY: Deeply analyze the provided codebase. Identify the files involved in the error, trace the execution flow, and understand the expected state vs actual state.\n        1. ANALYZE: Read the provided stack trace/behavior in relation to your codebase study.\n        2. REPRODUCE: Write a standalone reproduction script or test case that fails.\n        3. CONFIRM: Wait for me to run the script and confirm the failure.\n        4. FIX: Apply the fix to the codebase.\n        5. VERIFY: Run the reproduction script again to prove it passes.\n    ",
       "</meta_instruction>", "\n\n    ", "<bug_details>", "\n        ", "<observed_behavior>",
       "\n            ">>
  \o fd.observedBehavior
  \o <<"\n        ", "</observed_behavior>", "\n        ", "<expected_behavior>", "\n            ">>
  \o fd.expectedBehavior
  \o <<"\n        ", "</expected_behavior>", "\n        ", "<steps_to_reproduce>", "\n            ">>
  \o fd.stepsToReproduce
  \o <<"\n        ", "</steps_to_reproduce>", "\n    ", "</bug_details>", "\n", "</task_card>">>

---------------------------------------------------------------------------
(* The pages.  Forms are the seven pages of src/pages; EarlierForms are    *)
(* the two earlier versions of the bug_fix page that the repository keeps. *)

Forms ==
  {"bug_fix", "feature_request", "feature_change", "documentation", "testing",
   "security_audit", "cleanup"}

EarlierForms == {"bug_fix_v1", "bug_fix_v0"}

AllForms == Forms \cup EarlierForms

defaultFormData(p) ==
  CASE p = "bug_fix" -> defaultFormData_bug_fix
    [] p = "feature_request" -> defaultFormData_feature_request
    [] p = "feature_change" -> defaultFormData_feature_change
    [] p = "documentation" -> defaultFormData_documentation
    [] p = "testing" -> defaultFormData_testing
    [] p = "security_audit" -> defaultFormData_security_audit
    [] p = "cleanup" -> defaultFormData_cleanup
    [] p = "bug_fix_v1" -> defaultFormData_bug_fix_v1
    [] p = "bug_fix_v0" -> defaultFormData_bug_fix_v0

\* the value resetForm passes to setFormData: the constant defaultFormData in the
\* pages of src/pages, an object literal of its own in the earlier forms
resetFormData(p) ==
  CASE p = "bug_fix_v1" -> resetFormData_bug_fix_v1
    [] p = "bug_fix_v0" -> resetFormData_bug_fix_v0
    [] OTHER -> defaultFormData(p)

\* the earlier forms have no advanced sections: the empty record
initialAdvancedSections(p) ==
  CASE p = "bug_fix" -> advancedSections_bug_fix
    [] p = "feature_request" -> advancedSections_feature_request
    [] p = "feature_change" -> advancedSections_feature_change
    [] p = "documentation" -> advancedSections_documentation
    [] p = "testing" -> advancedSections_testing
    [] p = "security_audit" -> advancedSections_security_audit
    [] p = "cleanup" -> advancedSections_cleanup
    [] OTHER -> << >>

generateXML(p, fd) ==
  CASE p = "bug_fix" -> generateXML_bug_fix(fd)
    [] p = "feature_request" -> generateXML_feature_request(fd)
    [] p = "feature_change" -> generateXML_feature_change(fd)
    [] p = "documentation" -> generateXML_documentation(fd)
    [] p = "testing" -> generateXML_testing(fd)
    [] p = "security_audit" -> generateXML_security_audit(fd)
    [] p = "cleanup" -> generateXML_cleanup(fd)
    [] p = "bug_fix_v1" -> generateXML_bug_fix_v1(fd)
    [] p = "bug_fix_v0" -> generateXML_bug_fix_v0(fd)

textFields(p) ==
  CASE p = "bug_fix" -> textFields_bug_fix
    [] p = "feature_request" -> textFields_feature_request
    [] p = "feature_change" -> textFields_feature_change
    [] p = "documentation" -> textFields_documentation
    [] p = "testing" -> textFields_testing
    [] p = "security_audit" -> textFields_security_audit
    [] p = "cleanup" -> textFields_cleanup
    [] p = "bug_fix_v1" -> textFields_bug_fix_v1
    [] p = "bug_fix_v0" -> textFields_bug_fix_v0

ratingFields(p) ==
  CASE p = "bug_fix" -> ratingFields_bug_fix
    [] p = "feature_request" -> ratingFields_feature_request
    [] p = "feature_change" -> ratingFields_feature_change
    [] p = "documentation" -> ratingFields_documentation
    [] p = "testing" -> ratingFields_testing
    [] p = "security_audit" -> ratingFields_security_audit
    [] p = "cleanup" -> ratingFields_cleanup
    [] p = "bug_fix_v1" -> ratingFields_bug_fix_v1
    [] p = "bug_fix_v0" -> ratingFields_bug_fix_v0

boolFields(p) ==
  CASE p = "bug_fix" -> boolFields_bug_fix
    [] p = "feature_request" -> boolFields_feature_request
    [] p = "feature_change" -> boolFields_feature_change
    [] p = "documentation" -> boolFields_documentation
    [] p = "testing" -> boolFields_testing
    [] p = "security_audit" -> boolFields_security_audit
    [] p = "cleanup" -> boolFields_cleanup
    [] p = "bug_fix_v1" -> boolFields_bug_fix_v1
    [] p = "bug_fix_v0" -> boolFields_bug_fix_v0

requiredFields(p) ==
  CASE p = "bug_fix" -> requiredFields_bug_fix
    [] p = "feature_request" -> requiredFields_feature_request
    [] p = "feature_change" -> requiredFields_feature_change
    [] p = "documentation" -> requiredFields_documentation
    [] p = "testing" -> requiredFields_testing
    [] p = "security_audit" -> requiredFields_security_audit
    [] p = "cleanup" -> requiredFields_cleanup
    [] p = "bug_fix_v1" -> requiredFields_bug_fix_v1
    [] p = "bug_fix_v0" -> requiredFields_bug_fix_v0

sectionFields(p) ==
  CASE p = "bug_fix" -> sectionFields_bug_fix
    [] p = "feature_request" -> sectionFields_feature_request
    [] p = "feature_change" -> sectionFields_feature_change
    [] p = "documentation" -> sectionFields_documentation
    [] p = "testing" -> sectionFields_testing
    [] p = "security_audit" -> sectionFields_security_audit
    [] p = "cleanup" -> sectionFields_cleanup
    [] OTHER -> << >>

exportActions(p) ==
  CASE p = "bug_fix" -> exportActions_bug_fix
    [] p = "feature_request" -> exportActions_feature_request
    [] p = "feature_change" -> exportActions_feature_change
    [] p = "documentation" -> exportActions_documentation
    [] p = "testing" -> exportActions_testing
    [] p = "security_audit" -> exportActions_security_audit
    [] p = "cleanup" -> exportActions_cleanup
    [] OTHER -> {}

downloadFilename(p, fd) ==
  CASE p = "bug_fix" -> downloadFilename_bug_fix(fd)
    [] p = "feature_request" -> downloadFilename_feature_request(fd)
    [] p = "feature_change" -> downloadFilename_feature_change(fd)
    [] p = "documentation" -> downloadFilename_documentation(fd)
    [] p = "testing" -> downloadFilename_testing(fd)
    [] p = "security_audit" -> downloadFilename_security_audit(fd)

\* the buttons of a rating: [1, 2, 3, 4, 5].map((val) => <button ... />)
RatingValues == {1, 2, 3, 4, 5}

---------------------------------------------------------------------------
(* The handlers of a page.  Each is one action; its parameters are the     *)
(* event's data.                                                           *)

\* An input inside {advancedSections.s && (...)} exists only while s is expanded.
isRendered(name) ==
  \A s \in DOMAIN advancedSections :
     name \in sectionFields(page)[s] => advancedSections[s]

\* Mutant of toggleAdvanced: collapsing a section puts the fields it holds back
\* to their defaults.
toggleAdvancedDroppingFields(section) ==
  /\ section \in DOMAIN advancedSections
  /\ advancedSections' = [advancedSections EXCEPT ![section] = ~advancedSections[section]]
  /\ formData' = [f \in DOMAIN formData |->
                    IF advancedSections[section] /\ f \in sectionFields(page)[section]
                    THEN defaultFormData(page)[f]
                    ELSE formData[f]]
  /\ UNCHANGED <<page, xmlOutput, copied, clipboard, pendingWrites, timers,
                 recorded, generatedFrom, downloaded, title, sanitized>>

\* onClick={() => toggleAdvanced(section)}
toggleAdvanced(section) ==
  /\ section \in DOMAIN advancedSections
  /\ advancedSections' = [advancedSections EXCEPT ![section] = ~advancedSections[section]]
  /\ UNCHANGED <<page, formData, xmlOutput, copied, clipboard, pendingWrites, timers,
                 recorded, generatedFrom, downloaded, title, sanitized>>

\* onChange of a text input or textarea: [name]: value
handleInputChange(name, value) ==
  /\ name \in textFields(page)
  /\ isRendered(name)
  /\ formData' = [formData EXCEPT ![name] = value]
  /\ UNCHANGED <<page, xmlOutput, copied, advancedSections, clipboard, pendingWrites,
                 timers, recorded, generatedFrom, downloaded, title, sanitized>>

\* Mutant of handleCheckboxChange: a card on display is rendered again from the
\* new field values, as a live preview would.
handleCheckboxChangeRendering(name) ==
  /\ name \in boolFields(page)
  /\ isRendered(name)
  /\ formData' = [formData EXCEPT ![name] = ~formData[name]]
  /\ xmlOutput' = IF xmlOutput = << >> THEN << >> ELSE generateXML(page, formData')
  /\ UNCHANGED <<page, copied, advancedSections, clipboard, pendingWrites,
                 timers, recorded, generatedFrom, downloaded, title, sanitized>>

\* onChange of a checkbox: [name]: checked, and a click inverts checked
handleCheckboxChange(name) ==
  /\ name \in boolFields(page)
  /\ isRendered(name)
  /\ formData' = [formData EXCEPT ![name] = ~formData[name]]
  /\ UNCHANGED <<page, xmlOutput, copied, advancedSections, clipboard, pendingWrites,
                 timers, recorded, generatedFrom, downloaded, title, sanitized>>

\* Mutant of handleRatingChange: the buttons are numbered from 0, so the value
\* stored is one more than the value of the button.
handleRatingChangeFromZero(field, value) ==
  /\ field \in ratingFields(page)
  /\ isRendered(field)
  /\ value \in RatingValues
  /\ formData' = [formData EXCEPT ![field] = value + 1]
  /\ UNCHANGED <<page, xmlOutput, copied, advancedSections, clipboard, pendingWrites,
                 timers, recorded, generatedFrom, downloaded, title, sanitized>>

\* onClick of a rating button: [field]: value
handleRatingChange(field, value) ==
  /\ field \in ratingFields(page)
  /\ isRendered(field)
  /\ value \in RatingValues
  /\ formData' = [formData EXCEPT ![field] = value]
  /\ UNCHANGED <<page, xmlOutput, copied, advancedSections, clipboard, pendingWrites,
                 timers, recorded, generatedFrom, downloaded, title, sanitized>>

\* History of the generates, kept for the statement of determinism.  The first
\* generate made with the sections as mounted may be remembered.  A later
\* generate from equal field values adds its card to the remembered one, and
\* whether by then the page had copied a card and had a section toggled.
record(card) ==
  IF recorded = << >>
  THEN IF advancedSections = initialAdvancedSections(page)
       THEN {<< >>, [input |-> formData, card |-> card, again |-> << >>]}
       ELSE {<< >>}
  ELSE IF recorded.input = formData
       THEN {[recorded EXCEPT !.again =
                <<card, clipboard # << >>
                        /\ advancedSections # initialAdvancedSections(page)>>]}
       ELSE {recorded}

\* Mutant of callGenerateXML: the new card is appended to the card on display, as
\* setXmlOutput((prev) => prev + xml) would.
callGenerateXMLAppending ==
  /\ xmlOutput' = xmlOutput \o generateXML(page, formData)
  /\ recorded' \in record(xmlOutput')
  /\ generatedFrom' = formData
  /\ UNCHANGED <<page, formData, copied, advancedSections, clipboard, pendingWrites,
                 timers, downloaded, title, sanitized>>

\* Mutant of callGenerateXML: a new card also clears the copied indicator, as
\* setCopied(false) after setXmlOutput(xml) would.
callGenerateXMLClearingCopied ==
  /\ xmlOutput' = generateXML(page, formData)
  /\ copied' = FALSE
  /\ recorded' \in record(xmlOutput')
  /\ generatedFrom' = formData
  /\ UNCHANGED <<page, formData, advancedSections, clipboard, pendingWrites,
                 timers, downloaded, title, sanitized>>

\* generateXML(): const xml = `...`; setXmlOutput(xml)
callGenerateXML ==
  /\ xmlOutput' = generateXML(page, formData)
  /\ recorded' \in record(xmlOutput')
  /\ generatedFrom' = formData
  /\ UNCHANGED <<page, formData, copied, advancedSections, clipboard, pendingWrites,
                 timers, downloaded, title, sanitized>>

\* Mutant of onSubmit: the form is submitted without validation, as with noValidate.
onSubmitNoValidate == callGenerateXML

\* <form onSubmit={(e) => { e.preventDefault(); generateXML() }}>: the browser
\* raises submit only when every input marked required has a value
onSubmit ==
  /\ \A f \in requiredFields(page) : formData[f] # << >>
  /\ callGenerateXML

\* A button of the export block exists while {xmlOutput && (...)} renders the
\* block, and the block of the page holds a button wired to the handler.
isOffered(handler) ==
  /\ xmlOutput # << >>
  /\ handler \in exportActions(page)

\* copyToClipboard up to its await: navigator.clipboard.writeText(xmlOutput) is
\* started with the xmlOutput of this render.  The button exists only inside
\* {xmlOutput && (...)}.
copyToClipboard(maxPending) ==
  /\ isOffered("copyToClipboard")
  /\ Len(pendingWrites) < maxPending
  /\ pendingWrites' = Append(pendingWrites, xmlOutput)
  /\ UNCHANGED <<page, formData, xmlOutput, copied, advancedSections, clipboard, timers,
                 recorded, generatedFrom, downloaded, title, sanitized>>

\* the sequence s without its i-th element
RemoveAt(s, i) == SubSeq(s, 1, i - 1) \o SubSeq(s, i + 1, Len(s))

\* copyToClipboard after its await, the write done: setCopied(true) and
\* setTimeout(() => setCopied(false), 2000)
writeTextResolved(i, maxTimers) ==
  /\ i \in 1..Len(pendingWrites)
  /\ timers < maxTimers
  /\ clipboard' = pendingWrites[i]
  /\ copied' = TRUE
  /\ timers' = timers + 1
  /\ pendingWrites' = RemoveAt(pendingWrites, i)
  /\ UNCHANGED <<page, formData, xmlOutput, advancedSections, recorded, generatedFrom,
                 downloaded, title, sanitized>>

\* copyToClipboard, the write refused: catch (err) { console.error(...) }
writeTextRejected(i) ==
  /\ i \in 1..Len(pendingWrites)
  /\ pendingWrites' = RemoveAt(pendingWrites, i)
  /\ UNCHANGED <<page, formData, xmlOutput, copied, advancedSections, clipboard, timers,
                 recorded, generatedFrom, downloaded, title, sanitized>>

\* Mutant of copiedTimeout: the timer's callback leaves the indicator on, as
\* setTimeout(() => setCopied(true), 2000) would.
copiedTimeoutKeepingCopied ==
  /\ timers > 0
  /\ timers' = timers - 1
  /\ UNCHANGED <<page, formData, xmlOutput, copied, advancedSections, clipboard,
                 pendingWrites, recorded, generatedFrom, downloaded, title, sanitized>>

\* the callback of setTimeout: setCopied(false)
copiedTimeout ==
  /\ timers > 0
  /\ timers' = timers - 1
  /\ copied' = FALSE
  /\ UNCHANGED <<page, formData, xmlOutput, advancedSections, clipboard, pendingWrites,
                 recorded, generatedFrom, downloaded, title, sanitized>>

\* Mutant of downloadXML: the file is rendered from the fields as they are at the
\* click, not taken from xmlOutput.
downloadXMLRenderingFields ==
  /\ isOffered("downloadXML")
  /\ downloaded' = [filename |-> downloadFilename(page, formData),
                    type |-> "application/xml",
                    content |-> generateXML(page, formData)]
  /\ UNCHANGED <<page, formData, xmlOutput, copied, advancedSections, clipboard,
                 pendingWrites, timers, recorded, generatedFrom, title, sanitized>>

\* Mutant of downloadXML: the Blob is given the type text/plain.
downloadXMLAsText ==
  /\ isOffered("downloadXML")
  /\ downloaded' = [filename |-> downloadFilename(page, formData),
                    type |-> "text/plain",
                    content |-> xmlOutput]
  /\ UNCHANGED <<page, formData, xmlOutput, copied, advancedSections, clipboard,
                 pendingWrites, timers, recorded, generatedFrom, title, sanitized>>

\* downloadXML: new Blob([xmlOutput], { type: 'application/xml' }) saved under
\* a.download = filename.  The anchor is created, clicked and removed in the call.
downloadXML ==
  /\ isOffered("downloadXML")
  /\ downloaded' = [filename |-> downloadFilename(page, formData),
                    type |-> "application/xml",
                    content |-> xmlOutput]
  /\ UNCHANGED <<page, formData, xmlOutput, copied, advancedSections, clipboard,
                 pendingWrites, timers, recorded, generatedFrom, title, sanitized>>

\* Mutant of resetForm: setFormData(...) is missing.
resetFormKeepingData ==
  /\ xmlOutput' = << >>
  /\ copied' = FALSE
  /\ generatedFrom' = << >>
  /\ UNCHANGED <<page, formData, advancedSections, clipboard, pendingWrites, timers,
                 recorded, downloaded, title, sanitized>>

\* resetForm: setFormData(defaultFormData); setXmlOutput(''); setCopied(false)
resetForm ==
  /\ formData' = resetFormData(page)
  /\ xmlOutput' = << >>
  /\ copied' = FALSE
  /\ generatedFrom' = << >>
  /\ UNCHANGED <<page, advancedSections, clipboard, pendingWrites, timers, recorded,
                 downloaded, title, sanitized>>

\* the state of a page after its first render
Mounted(p) ==
  /\ page = p
  /\ formData = defaultFormData(p)
  /\ xmlOutput = << >>
  /\ copied = FALSE
  /\ advancedSections = initialAdvancedSections(p)
  /\ clipboard = << >>
  /\ pendingWrites = << >>
  /\ timers = 0
  /\ recorded = << >>
  /\ generatedFrom = << >>
  /\ downloaded = << >>

---------------------------------------------------------------------------
(* Spec: a session on one page.  The user's events are drawn from a slice  *)
(* of the inputs: one text, typed into the required inputs; one rating     *)
(* button and one checkbox; the section that holds that checkbox.          *)

\* writeText promises in flight at once, and copied-timers pending at once
MaxPending == 1
MaxTimers == 1

XFails == <<"X", " ", "f", "a", "i", "l", "s">>

OneOf(S) == CHOOSE x \in S : TRUE

InSomeSection(p, f) == \E s \in DOMAIN sectionFields(p) : f \in sectionFields(p)[s]

SessionTexts == {XFails}
\* the required inputs are filled one after the other, in one order
SessionTextFields(p) ==
  LET empty == {f \in requiredFields(p) : formData[f] = << >>}
  IN  IF empty = {} THEN {} ELSE {OneOf(empty)}
\* besides the texts, a session changes one control of the page: a rating on the
\* pages of RatingSessions, a checkbox on the others
RatingSessions == {"bug_fix", "documentation", "testing", "cleanup"}
SessionRatingFields(p) ==
  IF p \in RatingSessions
  THEN {OneOf({f \in ratingFields(p) : ~InSomeSection(p, f)})}
  ELSE {}
SessionRatings == {5}
SessionBoolFields(p) == IF p \in RatingSessions THEN {} ELSE {OneOf(boolFields(p))}
\* the section toggled is the one that holds the session's checkbox
SessionSections(p) ==
  {s \in DOMAIN sectionFields(p) : sectionFields(p)[s] \cap SessionBoolFields(p) # {}}

Init ==
  /\ \E p \in Forms : Mounted(p)
  /\ title = << >>
  /\ sanitized = << >>

Next ==
  \/ \E s \in SessionSections(page) : toggleAdvanced(s)
  \/ \E f \in SessionTextFields(page), v \in SessionTexts : handleInputChange(f, v)
  \/ \E f \in SessionBoolFields(page) : handleCheckboxChange(f)
  \/ \E f \in SessionRatingFields(page), v \in SessionRatings : handleRatingChange(f, v)
  \/ onSubmit
  \/ copyToClipboard(MaxPending)
  \/ downloadXML
  \/ \E i \in 1..MaxPending : writeTextResolved(i, MaxTimers)
  \/ \E i \in 1..MaxPending : writeTextRejected(i)
  \/ copiedTimeout
  \/ resetForm

Spec == Init /\ [][Next]_vars

---------------------------------------------------------------------------
(* SpecRender: generateXML as a function of the field values, and the file *)
(* a download makes of the card.  The field values are drawn from: the     *)
(* required texts filled, a title, and at most one more field changed from *)
(* its default.                                                            *)

\* 'Add User Dashboard'
AddUserDashboard ==
  <<"A", "d", "d", " ", "U", "s", "e", "r", " ", "D", "a", "s", "h", "b", "o", "a", "r", "d">>

\* 'Fix Login!!'
FixLoginBang == <<"F", "i", "x", " ", "L", "o", "g", "i", "n", "!", "!">>

RenderTitles == {<< >>, AddUserDashboard, FixLoginBang}

\* no text, a text, two texts of whitespace only, and a text of markup characters
RenderTexts == {<< >>, XFails, <<" ">>, <<" ", "\n", "\t">>, <<"<", "b", ">", "&", "\"">>}

RenderInputs(p) ==
  LET d == defaultFormData(p)
      base == [f \in DOMAIN d |->
                 IF f \in requiredFields(p) /\ f # "punchcardTitle" THEN XFails ELSE d[f]]
      titled == IF "punchcardTitle" \in DOMAIN d
                THEN {[base EXCEPT !["punchcardTitle"] = t] : t \in RenderTitles}
                ELSE {base}
      changed(b) ==
        {b}
        \cup {[b EXCEPT ![f] = v] : f \in textFields(p) \ {"punchcardTitle"}, v \in RenderTexts}
        \cup {[b EXCEPT ![f] = v] : f \in ratingFields(p), v \in RatingValues}
        \cup {[b EXCEPT ![f] = ~b[f]] : f \in boolFields(p)}
  IN  UNION {changed(b) : b \in titled}

InitRender ==
  /\ \E p \in AllForms :
       /\ page = p
       /\ formData \in RenderInputs(p)
       /\ advancedSections = initialAdvancedSections(p)
  /\ xmlOutput = << >>
  /\ copied = FALSE
  /\ clipboard = << >>
  /\ pendingWrites = << >>
  /\ timers = 0
  /\ recorded = << >>
  /\ generatedFrom = << >>
  /\ downloaded = << >>
  /\ title = << >>
  /\ sanitized = << >>

NextRender ==
  \/ callGenerateXML
  \/ downloadXML

SpecRender == InitRender /\ [][NextRender]_vars

---------------------------------------------------------------------------
(* SpecSanitize: sanitizeFilename as a function of the title.  The titles  *)
(* are a seed followed by at most MaxTyped characters of TitleAlphabet.    *)

MaxTyped == 3

\* 'Fix Login'
FixLogin == <<"F", "i", "x", " ", "L", "o", "g", "i", "n">>

SeedTitles == {<< >>, FixLogin, [i \in 1..48 |-> "a"], [i \in 1..100 |-> "a"]}

TitleAlphabet == {"a", "Z", "7", " ", "\t", "-", "_", "!"}

typeTitle(c, maxTyped) ==
  /\ \E s \in SeedTitles :
       /\ Len(s) <= Len(title)
       /\ SubSeq(title, 1, Len(s)) = s
       /\ Len(title) - Len(s) < maxTyped
  /\ title' = Append(title, c)
  /\ sanitized' = << >>
  /\ UNCHANGED pageVars

callSanitizeFilename ==
  /\ sanitized' = <<sanitizeFilename(title)>>
  /\ UNCHANGED <<pageVars, title>>

InitSanitize ==
  /\ Mounted("bug_fix")
  /\ title \in SeedTitles
  /\ sanitized = << >>

NextSanitize ==
  \/ \E c \in TitleAlphabet : typeTitle(c, MaxTyped)
  \/ callSanitizeFilename

SpecSanitize == InitSanitize /\ [][NextSanitize]_vars


---------------------------------------------------------------------------
(* SpecCopy: copies that overlap.  A session fills the required inputs,    *)
(* generates, and copies; up to MaxOverlap writes are in flight at once    *)
(* and up to MaxOverlap timers of the copied indicator are pending at      *)
(* once.  A timer set by setTimeout fires once its delay has passed,       *)
(* whatever else the page does: copiedTimeout is weakly fair.              *)

MaxOverlap == 2

CopyForms == {"bug_fix", "testing", "security_audit"}

InitCopy ==
  /\ \E p \in CopyForms : Mounted(p)
  /\ title = << >>
  /\ sanitized = << >>

NextCopy ==
  \/ \E f \in SessionTextFields(page), v \in SessionTexts : handleInputChange(f, v)
  \/ onSubmit
  \/ copyToClipboard(MaxOverlap)
  \/ \E i \in 1..MaxOverlap : writeTextResolved(i, MaxOverlap)
  \/ \E i \in 1..MaxOverlap : writeTextRejected(i)
  \/ copiedTimeout
  \/ resetForm

SpecCopy == InitCopy /\ [][NextCopy]_vars /\ WF_vars(copiedTimeout)

---------------------------------------------------------------------------
(* SpecTitle: the title edited around a generate.  On a page that has a    *)
(* title, with the other required inputs filled, the user types a title,   *)
(* generates, changes the title, downloads.                                *)

TitledForms == {p \in Forms : "punchcardTitle" \in DOMAIN defaultFormData(p)}

TitleEdits == {<< >>, XFails, FixLoginBang}

\* <span className="file-name">{sanitizeFilename(formData.punchcardTitle)}_bug_fix.xml</span>
fileNameShown(p, fd) ==
  IF "punchcardTitle" \in DOMAIN fd
  THEN sanitizeFilename(fd.punchcardTitle) \o <<"_" \o p \o ".xml">>
  ELSE <<"documentation_task.xml">>

InitTitle ==
  /\ \E p \in TitledForms :
       /\ page = p
       /\ formData = [f \in DOMAIN defaultFormData(p) |->
                        IF f \in requiredFields(p) /\ f # "punchcardTitle"
                        THEN XFails
                        ELSE defaultFormData(p)[f]]
       /\ advancedSections = initialAdvancedSections(p)
  /\ xmlOutput = << >>
  /\ copied = FALSE
  /\ clipboard = << >>
  /\ pendingWrites = << >>
  /\ timers = 0
  /\ recorded = << >>
  /\ generatedFrom = << >>
  /\ downloaded = << >>
  /\ title = << >>
  /\ sanitized = << >>

NextTitle ==
  \/ \E t \in TitleEdits : handleInputChange("punchcardTitle", t)
  \/ onSubmit
  \/ downloadXML

SpecTitle == InitTitle /\ [][NextTitle]_vars

---------------------------------------------------------------------------
(* The claims about sanitizeFilename, checked under SpecSanitize.  The     *)
(* reference treats whitespace and dashes in one pass over the kept        *)
(* characters, not as the chain of replacements of the code.               *)

RefLower(c) ==
  IF \E k \in 1..26 : UpperLetters[k] = c
  THEN LowerLetters[CHOOSE k \in 1..26 : UpperLetters[k] = c]
  ELSE c

RefClass(c) ==
  IF c \in {" ", "\t"} THEN "space"
  ELSE IF c = "-" THEN "dash"
  ELSE IF c \in LowerSet \cup {"0", "1", "2", "3", "4", "5", "6", "7", "8", "9"} THEN "keep"
  ELSE "drop"

\* The reference: the title lowercased, the characters outside [a-z0-9\s-]
\* dropped, one '_' written where a run of whitespace or a run of dashes starts
\* and nothing for the rest of the run, the first 50 characters of that, and
\* 'untitled' if nothing is left.
RefSanitize(t) ==
  LET lowered == [i \in 1..Len(t) |-> RefLower(t[i])]
      kept == SelectSeq(lowered, LAMBDA c : RefClass(c) # "drop")
      marks == [i \in 1..Len(kept) |->
                  IF RefClass(kept[i]) = "keep" THEN kept[i]
                  ELSE IF i > 1 /\ RefClass(kept[i - 1]) = RefClass(kept[i]) THEN ""
                  ELSE "_"]
      s == SelectSeq(marks, LAMBDA c : c # "")
      cut == IF Len(s) > 50 THEN SubSeq(s, 1, 50) ELSE s
  IN  IF cut = << >> THEN <<"u", "n", "t", "i", "t", "l", "e", "d">> ELSE cut

\* C4: sanitizeFilename(title) equals the reference pipeline (lowercase; delete the
\* characters outside [a-z0-9, whitespace, '-']; each maximal run of whitespace to
\* one '_'; each maximal run of '-' to one '_'; the first 50 characters; 'untitled'
\* if that is empty).  In particular '' gives 'untitled', 'Fix Login!!' gives
\* 'fix_login', and 100 letters 'a' give a string of length 50.
C4_SanitizeMatchesReference ==
  sanitized # << >> =>
    /\ sanitized[1] = RefSanitize(title)
    /\ title = << >> => sanitized[1] = <<"u", "n", "t", "i", "t", "l", "e", "d">>
    /\ title = FixLoginBang => sanitized[1] = <<"f", "i", "x", "_", "l", "o", "g", "i", "n">>
    /\ title = [i \in 1..100 |-> "a"] => Len(sanitized[1]) = 50

\* 'Fix Login!!' has been sanitized
C4_Witness == sanitized # << >> /\ title = FixLoginBang

\* C5: a title made only of dashes is not treated as empty: sanitizeFilename('---')
\* is '_', not 'untitled'.
C5_DashesGiveUnderscore ==
  (sanitized # << >> /\ title = <<"-", "-", "-">>) => sanitized[1] = <<"_">>

\* '---' has been sanitized
C5_Witness == title = <<"-", "-", "-">> /\ sanitized # << >>

\* C6: sanitizeFilename is total and its result is a safe name fragment: for every
\* title it returns a string that is not empty, has at most 50 characters, and has
\* every character in [a-z0-9_].
C6_SanitizedIsSafe ==
  sanitized # << >> =>
    /\ Len(sanitized) = 1
    /\ Len(sanitized[1]) \in 1..50
    /\ \A i \in 1..Len(sanitized[1]) :
         sanitized[1][i] \in LowerSet \cup {"0", "1", "2", "3", "4", "5", "6", "7", "8", "9", "_"}

\* a title of more than 100 characters, one of them outside [a-z0-9_], has been
\* sanitized
C6_Witness ==
  /\ sanitized # << >>
  /\ Len(title) > 100
  /\ \E i \in 1..Len(title) : title[i] \in {"Z", " ", "-", "!"}

---------------------------------------------------------------------------
(* The claims about the rendered card, checked under SpecRender.  The      *)
(* tables list, page by page, the elements of the card: a text field with  *)
(* a fallback, with the atoms before and after its value; a rating field,  *)
(* with the atom that opens its element up to level=", its closing tag and *)
(* its table of labels.                                                    *)

\* bug_fix: each text field rendered with a fallback: <<field, the atom before the value, the atom after it, the fallback>>
fallbackElements_bug_fix ==
  { <<"punchcardTitle", " title=\"", "\">\n    ", "Untitled Bug Fix">>,
    <<"errorMessages", "<error_messages>", "</error_messages>", "N/A">>,
    <<"affectedFiles", "<affected_files>", "</affected_files>", "Unknown - please investigate">>,
    <<"environment", "<environment>", "</environment>", "Not specified">>,
    <<"filesToIgnore", "<files_to_ignore>", "</files_to_ignore>", "None">>,
    <<"extraInfo", "<extra_info>", "</extra_info>", "None">>,
    <<"codebaseVersion", "<codebase_version>", "</codebase_version>", "Not specified">>,
    <<"gitBranch", "<git_branch>", "</git_branch>", "Not specified">>,
    <<"lastWorkingCommit", "<last_working_commit>", "</last_working_commit>", "Unknown">>,
    <<"relatedIssues", "<related_issues>", "</related_issues>", "None">>,
    <<"suspectedRootCause", "<suspected_root_cause>", "</suspected_root_cause>", "Unknown">>,
    <<"osVersion", "<os_version>", "</os_version>", "Not specified">>,
    <<"nodeVersion", "<node_version>", "</node_version>", "Not specified">>,
    <<"browserVersion", "<browser_version>", "</browser_version>", "Not specified">>,
    <<"databaseVersion", "<database_version>", "</database_version>", "Not specified">>,
    <<"dockerConfig", "<docker_config>", "</docker_config>", "None">>,
    <<"frequencyOfBug", "<frequency>", "</frequency>", "Not specified">>,
    <<"dataConditions", "<data_conditions>", "</data_conditions>", "Not specified">>,
    <<"userPermissions", "<user_permissions>", "</user_permissions>", "Not specified">>,
    <<"networkConditions", "<network_conditions>", "</network_conditions>", "Not specified">>,
    <<"concurrencyScenario", "<concurrency_scenario>", "</concurrency_scenario>", "None">>,
    <<"preferredFixApproach", "<preferred_approach>", "</preferred_approach>", "No preference">>,
    <<"avoidPatterns", "<avoid_patterns>", "</avoid_patterns>", "None">>,
    <<"performanceConstraints", "<performance_constraints>", "</performance_constraints>", "None">>,
    <<"memoryConstraints", "<memory_constraints>", "</memory_constraints>", "None">>,
    <<"timeoutRequirements", "<timeout_requirements>", "</timeout_requirements>", "None">>,
    <<"existingTestFiles", "<existing_test_files>", "</existing_test_files>", "None specified">>,
    <<"testFramework", "<test_framework>", "</test_framework>", "Use project default">>,
    <<"mockRequirements", "<mock_requirements>", "</mock_requirements>", "None">>,
    <<"coverageTarget", "<coverage_target>", "</coverage_target>", "Not specified">>,
    <<"e2eConsiderations", "<e2e_considerations>", "</e2e_considerations>", "None">> }

\* bug_fix: each rating field: <<field, the atom opening the element, the atom closing it, its label table>>
ratingElements_bug_fix ==
  { <<"documentationDepth", "<detail_level level=\"", "</detail_level>",
       <<"Minimal - snappy dot points", "Brief - key points only", "Standard - balanced detail",
         "Detailed - thorough coverage", "Deep - comprehensive documentation">> >>,
    <<"urgency", "<urgency level=\"", "</urgency>",
       <<"Low - whenever", "Minor - soon", "Normal", "High - ASAP", "Critical - NOW">> >>,
    <<"testingLevel", "<testing_level level=\"", "</testing_level>",
       <<"Minimal - just verify fix", "Light - basic tests", "Standard", "Thorough - edge cases",
         "Exhaustive - full coverage">> >>,
    <<"creativityLevel", "<creativity_level level=\"", "</creativity_level>",
       <<"Conservative - safest fix", "Cautious", "Balanced", "Open to ideas", "Creative - explore options">> >>,
    <<"logVerbosity", "<log_verbosity level=\"", "</log_verbosity>",
       <<"Silent - errors only", "Quiet", "Normal", "Verbose", "Debug - everything">> >> }

\* feature_request: each text field rendered with a fallback: <<field, the atom before the value, the atom after it, the fallback>>
fallbackElements_feature_request ==
  { <<"punchcardTitle", " title=\"", "\">\n  ", "Untitled Feature Request">>,
    <<"acceptanceCriteria", "<acceptance_criteria>", "</acceptance_criteria>", "Not specified - use your judgment">>,
    <<"constraints", "<constraints>", "</constraints>", "None specified">>,
    <<"referenceFiles", "<reference_files>", "</reference_files>", "None specified - explore codebase">>,
    <<"techStack", "<tech_stack>", "</tech_stack>", "Follow existing project patterns">>,
    <<"stylingGuidelines", "<styling_guidelines>", "</styling_guidelines>", "Follow existing patterns">>,
    <<"filesToIgnore", "<files_to_ignore>", "</files_to_ignore>", "None">>,
    <<"extraInfo", "<extra_info>", "</extra_info>", "None">>,
    <<"designPatterns", "<design_patterns>", "</design_patterns>", "Follow existing">>,
    <<"folderStructure", "<folder_structure>", "</folder_structure>", "Follow existing">>,
    <<"namingConventions", "<naming_conventions>", "</naming_conventions>", "Follow existing">>,
    <<"stateManagement", "<state_management>", "</state_management>", "Follow existing">>,
    <<"apiDesign", "<api_design>", "</api_design>", "RESTful default">>,
    <<"dataModels", "<data_models>", "</data_models>", "Not specified">>,
    <<"databaseSchema", "<database_schema>", "</database_schema>", "Not specified">>,
    <<"validationRules", "<validation_rules>", "</validation_rules>", "Standard validation">>,
    <<"dataTransformations", "<data_transformations>", "</data_transformations>", "None specified">>,
    <<"caching", "<caching_strategy>", "</caching_strategy>", "Default">>,
    <<"componentLibrary", "<component_library>", "</component_library>", "Use existing">>,
    <<"responsiveBreakpoints", "<responsive_breakpoints>", "</responsive_breakpoints>", "Standard breakpoints">>,
    <<"accessibilityLevel", "<accessibility_level>", "</accessibility_level>", "WCAG AA">>,
    <<"animationPrefs", "<animation_preferences>", "</animation_preferences>", "Subtle">>,
    <<"apiEndpoints", "<api_endpoints>", "</api_endpoints>", "Not specified">>,
    <<"authRequirements", "<auth_requirements>", "</auth_requirements>", "Follow existing auth">>,
    <<"thirdPartyServices", "<third_party_services>", "</third_party_services>", "None">>,
    <<"webhooks", "<webhooks>", "</webhooks>", "None">>,
    <<"eventSystem", "<event_system>", "</event_system>", "None">>,
    <<"bundleSizeLimit", "<bundle_size_limit>", "</bundle_size_limit>", "No strict limit">>,
    <<"renderingStrategy", "<rendering_strategy>", "</rendering_strategy>", "Default">>,
    <<"errorHandlingStrategy", "<error_handling_strategy>", "</error_handling_strategy>", "Standard try-catch">>,
    <<"monitoringIntegration", "<monitoring_integration>", "</monitoring_integration>", "None">> }

\* feature_request: each rating field: <<field, the atom opening the element, the atom closing it, its label table>>
ratingElements_feature_request ==
  { <<"documentationDepth", "<detail_level level=\"", "</detail_level>",
       <<"Minimal - snappy dot points", "Brief - key points only", "Standard - balanced detail",
         "Detailed - thorough coverage", "Deep - comprehensive documentation">> >>,
    <<"creativityLevel", "<creativity_level level=\"", "</creativity_level>",
       <<"Conservative - follow patterns strictly", "Cautious - minimal innovation", "Balanced",
         "Open - suggest improvements", "Creative - propose best solutions">> >>,
    <<"scopeLevel", "<scope_level level=\"", "</scope_level>",
       <<"MVP - bare minimum", "Lean - essential only", "Standard", "Complete - polish included",
         "Comprehensive - full bells & whistles">> >>,
    <<"documentationLevel", "<documentation_level level=\"", "</documentation_level>",
       <<"None - just code", "Minimal - key comments", "Standard", "Detailed - inline docs",
         "Extensive - full documentation">> >>,
    <<"loggingLevel", "<logging_level level=\"", "</logging_level>",
       <<"None", "Errors only", "Standard", "Verbose", "Debug everything">> >> }

\* feature_change: each text field rendered with a fallback: <<field, the atom before the value, the atom after it, the fallback>>
fallbackElements_feature_change ==
  { <<"punchcardTitle", " title=\"", "\">\n  ", "Untitled Feature Change">>,
    <<"affectedAreas", "<affected_areas>", "</affected_areas>", "Unknown - please analyze">>,
    <<"backwardCompatibility", "<backward_compatibility_notes>", "</backward_compatibility_notes>", "Not specified">>,
    <<"migrationNotes", "<migration_notes>", "</migration_notes>", "None">>,
    <<"filesToIgnore", "<files_to_ignore>", "</files_to_ignore>", "None">>,
    <<"extraInfo", "<extra_info>", "</extra_info>", "None">>,
    <<"upstreamDependencies", "<upstream_dependencies>", "</upstream_dependencies>", "Not specified">>,
    <<"downstreamConsumers", "<downstream_consumers>", "</downstream_consumers>", "Not specified">>,
    <<"sharedUtilities", "<shared_utilities>", "</shared_utilities>", "Not specified">>,
    <<"affectedTests", "<affected_tests>", "</affected_tests>", "Not specified">>,
    <<"affectedDocs", "<affected_docs>", "</affected_docs>", "Not specified">>,
    <<"migrationStrategy", "<migration_strategy>", "</migration_strategy>", "Not specified">>,
    <<"rollbackPlan", "<rollback_plan>", "</rollback_plan>", "Not specified">>,
    <<"dataTransformation", "<data_transformation>", "</data_transformation>", "None">>,
    <<"featureFlagStrategy", "<feature_flag_strategy>", "</feature_flag_strategy>", "None">>,
    <<"apiVersioning", "<api_versioning>", "</api_versioning>", "Not applicable">>,
    <<"deprecationStrategy", "<deprecation_strategy>", "</deprecation_strategy>", "Not specified">>,
    <<"legacySupport", "<legacy_support>", "</legacy_support>", "Not specified">>,
    <<"browserSupport", "<browser_support>", "</browser_support>", "Current standards">>,
    <<"mobileSupport", "<mobile_support>", "</mobile_support>", "Not specified">>,
    <<"regressionTestScope", "<regression_test_scope>", "</regression_test_scope>", "Standard">>,
    <<"integrationTests", "<integration_tests>", "</integration_tests>", "Not specified">>,
    <<"performanceBenchmarks", "<performance_benchmarks>", "</performance_benchmarks>", "None">>,
    <<"manualTestCases", "<manual_test_cases>", "</manual_test_cases>", "None">>,
    <<"notifyTeams", "<notify_teams>", "</notify_teams>", "None">>,
    <<"documentationUpdates", "<documentation_updates>", "</documentation_updates>", "As needed">>,
    <<"changelogEntry", "<changelog_entry>", "</changelog_entry>", "Auto-generate">>,
    <<"releaseNotes", "<release_notes>", "</release_notes>", "Not specified">>,
    <<"userCommunication", "<user_communication>", "</user_communication>", "None">> }

\* feature_change: each rating field: <<field, the atom opening the element, the atom closing it, its label table>>
ratingElements_feature_change ==
  { <<"documentationDepth", "<detail_level level=\"", "</detail_level>",
       <<"Minimal - snappy dot points", "Brief - key points only", "Standard - balanced detail",
         "Detailed - thorough coverage", "Deep - comprehensive documentation">> >>,
    <<"testingLevel", "<testing_level level=\"", "</testing_level>",
       <<"Minimal - trust the change", "Light - spot check", "Standard", "Thorough - regression tests",
         "Exhaustive - full test suite">> >>,
    <<"riskTolerance", "<risk_tolerance level=\"", "</risk_tolerance>",
       <<"Very cautious - safest approach", "Conservative", "Balanced", "Open to moderate risk",
         "Bold - willing to refactor heavily">> >>,
    <<"scopeLevel", "<scope_level level=\"", "</scope_level>",
       <<"Minimal - only what's needed", "Focused", "Standard", "Broader - related improvements",
         "Comprehensive - full cleanup">> >>,
    <<"refactorDepth", "<refactor_depth level=\"", "</refactor_depth>",
       <<"Surface - cosmetic only", "Shallow", "Moderate", "Deep", "Complete rewrite if needed">> >> }

\* documentation: each text field rendered with a fallback: <<field, the atom before the value, the atom after it, the fallback>>
fallbackElements_documentation ==
  { <<"existingDocs", "<existing_docs>", "</existing_docs>", "None">>,
    <<"codebaseContext", "<codebase_context>", "</codebase_context>", "Not specified">>,
    <<"styleGuide", "<style_guide>", "</style_guide>", "Use standard conventions">>,
    <<"filesToIgnore", "<files_to_ignore>", "</files_to_ignore>", "None">>,
    <<"extraInfo", "<extra_info>", "</extra_info>", "None">>,
    <<"markdownFlavor", "<markdown_flavor>", "</markdown_flavor>", "GitHub Flavored">>,
    <<"headingStructure", "<heading_structure>", "</heading_structure>", "Standard H1-H6">>,
    <<"codeBlockStyle", "<code_block_style>", "</code_block_style>", "Fenced with language">>,
    <<"diagramFormat", "<diagram_format>", "</diagram_format>", "Mermaid">>,
    <<"sinceVersion", "<since_version>", "</since_version>", "Not tracked">>,
    <<"typedocConfig", "<typedoc_config>", "</typedoc_config>", "Not using">>,
    <<"jsdocTags", "<jsdoc_tags>", "</jsdoc_tags>", "Standard tags">>,
    <<"readmeTemplate", "<readme_template>", "</readme_template>", "None">>,
    <<"versioningStrategy", "<versioning_strategy>", "</versioning_strategy>", "None">> }

\* documentation: each rating field: <<field, the atom opening the element, the atom closing it, its label table>>
ratingElements_documentation ==
  { <<"detailLevel", "<detail_level level=\"", "</detail_level>",
       <<"Minimal - brief descriptions", "Concise", "Standard", "Detailed", "Comprehensive - exhaustive detail">> >>,
    <<"technicalDepth", "<technical_depth level=\"", "</technical_depth>",
       <<"Beginner - no jargon", "Basic", "Intermediate", "Advanced", "Expert - assume deep knowledge">> >>,
    <<"examplesLevel", "<examples_level level=\"", "</examples_level>",
       <<"None", "Minimal - one basic example", "Some examples", "Many examples", "Extensive - cover all cases">> >>,
    <<"exampleComplexity", "<example_complexity level=\"", "</example_complexity>",
       <<"Trivial - hello world", "Simple", "Moderate", "Complex", "Real-world production examples">> >> }

\* testing: each text field rendered with a fallback: <<field, the atom before the value, the atom after it, the fallback>>
fallbackElements_testing ==
  { <<"punchcardTitle", " title=\"", "\">\n  ", "Untitled Testing">>,
    <<"existingTests", "<existing_tests>", "</existing_tests>", "None">>,
    <<"testingFramework", "<testing_framework>", "</testing_framework>", "Auto-detect">>,
    <<"codebaseContext", "<codebase_context>", "</codebase_context>", "Not specified">>,
    <<"filesToIgnore", "<files_to_ignore>", "</files_to_ignore>", "None">>,
    <<"extraInfo", "<extra_info>", "</extra_info>", "None">>,
    <<"unitTestStyle", "<test_style>", "</test_style>", "BDD style">>,
    <<"assertionLibrary", "<assertion_library>", "</assertion_library>", "Framework default">>,
    <<"testNaming", "<test_naming_convention>", "</test_naming_convention>", "should_X_when_Y">>,
    <<"integrationScope", "<scope>", "</scope>", "Not specified">>,
    <<"databaseStrategy", "<database_strategy>", "</database_strategy>", "In-memory/mock">>,
    <<"apiMocking", "<api_mocking>", "</api_mocking>", "Mock external APIs">>,
    <<"e2eFramework", "<framework>", "</framework>", "Not specified">>,
    <<"browserTargets", "<browser_targets>", "</browser_targets>", "Chrome">>,
    <<"mockingFramework", "<mocking_framework>", "</mocking_framework>", "Framework default">>,
    <<"coverageThreshold", "<coverage_threshold>", "</coverage_threshold>", "No minimum">>,
    <<"excludeFromCoverage", "<exclude_from_coverage>", "</exclude_from_coverage>", "None">>,
    <<"testTimeout", "<test_timeout>", "</test_timeout>", "Framework default">>,
    <<"reportFormat", "<report_format>", "</report_format>", "Console + HTML">> }

\* testing: each rating field: <<field, the atom opening the element, the atom closing it, its label table>>
ratingElements_testing ==
  { <<"documentationDepth", "<detail_level level=\"", "</detail_level>",
       <<"Minimal - snappy dot points", "Brief - key points only", "Standard - balanced detail",
         "Detailed - thorough coverage", "Deep - comprehensive documentation">> >>,
    <<"coverage", "<coverage_goal level=\"", "</coverage_goal>",
       <<"Minimal - key paths only", "Basic - happy paths", "Standard - most cases", "High - edge cases included",
         "Comprehensive - 90%+ coverage">> >>,
    <<"thoroughness", "<thoroughness level=\"", "</thoroughness>",
       <<"Quick smoke tests", "Basic validation", "Standard testing", "Thorough testing",
         "Exhaustive - all scenarios">> >>,
    <<"mockingLevel", "<mocking_level level=\"", "</mocking_level>",
       <<"No mocking - real dependencies", "Minimal mocking", "Standard mocking", "Heavy mocking",
         "Full isolation - mock everything">> >>,
    <<"mockDepth", "<mock_depth level=\"", "</mock_depth>",
       <<"Shallow - direct deps only", "Basic", "Standard", "Deep", "Complete - all layers">> >> }

\* security_audit: each text field rendered with a fallback: <<field, the atom before the value, the atom after it, the fallback>>
fallbackElements_security_audit ==
  { <<"punchcardTitle", " title=\"", "\">\n  ", "Untitled Security Audit">>,
    <<"securityConcerns", "<security_concerns>", "</security_concerns>", "General security review">>,
    <<"appType", "<application_type>", "</application_type>", "Not specified">>,
    <<"sensitiveData", "<sensitive_data_handled>", "</sensitive_data_handled>", "Not specified">>,
    <<"existingMeasures", "<existing_security_measures>", "</existing_security_measures>", "None documented">>,
    <<"filesToIgnore", "<files_to_ignore>", "</files_to_ignore>", "None">>,
    <<"extraInfo", "<extra_info>", "</extra_info>", "None">>,
    <<"reportFormat", "<report_format>", "</report_format>", "Markdown with sections">> }

\* security_audit: each rating field: <<field, the atom opening the element, the atom closing it, its label table>>
ratingElements_security_audit ==
  { <<"documentationDepth", "<detail_level level=\"", "</detail_level>",
       <<"Minimal - snappy dot points", "Brief - key points only", "Standard - balanced detail",
         "Detailed - thorough coverage", "Deep - comprehensive documentation">> >>,
    <<"severity", "<minimum_severity level=\"", "</minimum_severity>",
       <<"Critical only", "Critical + High", "Medium and above", "Low and above", "All including informational">> >>,
    <<"thoroughness", "<thoroughness level=\"", "</thoroughness>",
       <<"Quick scan - obvious issues", "Basic review", "Standard audit", "Deep analysis",
         "Exhaustive - pentester level">> >>,
    <<"complianceLevel", "<compliance_level level=\"", "</compliance_level>",
       <<"No compliance needed", "Basic standards", "Industry standards", "Strict compliance",
         "Regulatory audit ready">> >> }

\* cleanup: each text field rendered with a fallback: <<field, the atom before the value, the atom after it, the fallback>>
fallbackElements_cleanup ==
  { <<"codebaseAge", "<codebase_age>", "</codebase_age>", "Not specified">>,
    <<"knownIssues", "<known_issues>", "</known_issues>", "None specified">>,
    <<"constraints", "<constraints>", "</constraints>", "None">>,
    <<"filesToIgnore", "<files_to_ignore>", "</files_to_ignore>", "None">>,
    <<"extraInfo", "<extra_info>", "</extra_info>", "None">>,
    <<"lineEndings", "<line_endings>", "</line_endings>", "LF (Unix)">>,
    <<"maxLineLength", "<max_line_length>", "</max_line_length>", "No limit">>,
    <<"bracesStyle", "<braces_style>", "</braces_style>", "Keep existing">> }

\* cleanup: each rating field: <<field, the atom opening the element, the atom closing it, its label table>>
ratingElements_cleanup ==
  { <<"aggressiveness", "<aggressiveness level=\"", "</aggressiveness>",
       <<"Conservative - obvious issues only", "Light cleanup", "Standard cleanup", "Thorough cleanup",
         "Aggressive - maximum cleanup">> >>,
    <<"preserveComments", "<preserve_comments level=\"", "</preserve_comments>",
       <<"Remove most comments", "Remove stale comments", "Keep useful comments", "Preserve most comments",
         "Preserve all comments">> >>,
    <<"testingRequired", "<testing_required level=\"", "</testing_required>",
       <<"No testing needed", "Manual spot check", "Run existing tests", "Full test coverage",
         "Requires new tests for changes">> >> }

fallbackElements(p) ==
  CASE p = "bug_fix" -> fallbackElements_bug_fix
    [] p = "feature_request" -> fallbackElements_feature_request
    [] p = "feature_change" -> fallbackElements_feature_change
    [] p = "documentation" -> fallbackElements_documentation
    [] p = "testing" -> fallbackElements_testing
    [] p = "security_audit" -> fallbackElements_security_audit
    [] p = "cleanup" -> fallbackElements_cleanup

ratingElements(p) ==
  CASE p = "bug_fix" -> ratingElements_bug_fix
    [] p = "feature_request" -> ratingElements_feature_request
    [] p = "feature_change" -> ratingElements_feature_change
    [] p = "documentation" -> ratingElements_documentation
    [] p = "testing" -> ratingElements_testing
    [] p = "security_audit" -> ratingElements_security_audit
    [] p = "cleanup" -> ratingElements_cleanup

\* the card contains the atom a
Has(card, a) == \E i \in 1..Len(card) : card[i] = a

\* the card contains open, then exactly content, then close
ElementIs(card, open, close, content) ==
  \E i \in 1..Len(card) :
     /\ card[i] = open
     /\ i + Len(content) + 1 <= Len(card)
     /\ SubSeq(card, i + 1, i + Len(content)) = content
     /\ card[i + Len(content) + 1] = close

RefDigits == <<"1", "2", "3", "4", "5">>

RefDocDepthLabels ==
  <<"Minimal - snappy dot points", "Brief - key points only", "Standard - balanced detail",
    "Detailed - thorough coverage", "Deep - comprehensive documentation">>

\* the rating element of a card: level="v"> and the v-th label
RatingContent(labels, v) == <<RefDigits[v], "\">", labels[v]>>

\* C2: for every optional text field of every card type, the rendered card holds
\* the field's declared fallback as the element content when the field is '', and
\* exactly the field's string, unmodified and unescaped, when it is not.
C2_OptionalTextOrFallback ==
  (page \in Forms /\ xmlOutput # << >>) =>
    \A e \in fallbackElements(page) :
       e[1] \notin requiredFields(page) =>
         ElementIs(xmlOutput, e[2], e[3],
                   IF formData[e[1]] = << >> THEN <<e[4]>> ELSE formData[e[1]])

\* a card rendered with markup characters, or with a blank, in an optional field
C2_Witness ==
  /\ page \in Forms
  /\ xmlOutput # << >>
  /\ \E e \in fallbackElements(page) :
       /\ e[1] \notin requiredFields(page)
       /\ formData[e[1]] = <<"<", "b", ">", "&", "\"">>

\* C3: for every rating field of every card type and every value v in 1..5, the
\* rendered element carries level="v" and its text is the v-th entry of that
\* field's own table of five labels.  (The documentation depth of feature_change
\* has no element while enableDocumentation is off.)
C3_RatingLevelAndLabel ==
  (page \in Forms /\ xmlOutput # << >>) =>
    \A r \in ratingElements(page) :
       \/ /\ page = "feature_change"
          /\ r[1] = "documentationDepth"
          /\ ~formData.enableDocumentation
       \/ /\ Len(r[4]) = 5
          /\ formData[r[1]] \in 1..5
          /\ ElementIs(xmlOutput, r[2], r[3], RatingContent(r[4], formData[r[1]]))

\* a card rendered with a rating moved from its default to 5
C3_Witness ==
  /\ page \in Forms
  /\ xmlOutput # << >>
  /\ \E r \in ratingElements(page) :
       formData[r[1]] = 5 /\ defaultFormData(page)[r[1]] # 5

\* C7: in every rendered card that has a documentation_requirement block, the
\* output_path element is 'punchcards/' + sanitizeFilename(title) + '.md' and the
\* detail_level element has level="d" and the d-th documentation-depth label, for
\* every title and every d in 1..5; 'Add User Dashboard' with depth 5 gives
\* 'punchcards/add_user_dashboard.md' and 'Deep - comprehensive documentation'.
C7_DocumentationBlock ==
  Has(xmlOutput, "<documentation_requirement>") =>
    /\ ElementIs(xmlOutput, "<output_path>", "</output_path>",
                 <<"punchcards/">> \o RefSanitize(formData.punchcardTitle) \o <<".md">>)
    /\ formData.documentationDepth \in 1..5
    /\ ElementIs(xmlOutput, "<detail_level level=\"", "</detail_level>",
                 RatingContent(RefDocDepthLabels, formData.documentationDepth))
    /\ (formData.punchcardTitle = AddUserDashboard /\ formData.documentationDepth = 5) =>
         /\ ElementIs(xmlOutput, "<output_path>", "</output_path>",
                      <<"punchcards/", "a", "d", "d", "_", "u", "s", "e", "r", "_", "d", "a",
                        "s", "h", "b", "o", "a", "r", "d", ".md">>)
         /\ ElementIs(xmlOutput, "<detail_level level=\"", "</detail_level>",
                      <<"5", "\">", "Deep - comprehensive documentation">>)

\* a card with the block, rendered from 'Add User Dashboard' and depth 5
C7_Witness ==
  /\ Has(xmlOutput, "<documentation_requirement>")
  /\ formData.punchcardTitle = AddUserDashboard
  /\ formData.documentationDepth = 5

BugFixForms == {"bug_fix", "bug_fix_v1", "bug_fix_v0"}

BugFixRequired == {"observedBehavior", "expectedBehavior", "stepsToReproduce"}

\* the three required texts set and every other field at its default
MinimalBugFix ==
  /\ page \in BugFixForms
  /\ xmlOutput # << >>
  /\ \A f \in DOMAIN formData :
       IF f \in BugFixRequired THEN formData[f] # << >>
       ELSE formData[f] = defaultFormData(page)[f]

MinimalBugFixCard ==
  /\ Has(xmlOutput, "<task_card type=\"bug_fix\"")
  /\ ElementIs(xmlOutput, "<observed_behavior>", "</observed_behavior>",
               formData.observedBehavior)
  /\ ElementIs(xmlOutput, "<expected_behavior>", "</expected_behavior>",
               formData.expectedBehavior)
  /\ ElementIs(xmlOutput, "<steps_to_reproduce>", "</steps_to_reproduce>",
               formData.stepsToReproduce)
  /\ ElementIs(xmlOutput, "<urgency level=\"", "</urgency>", <<"3", "\">", "Normal">>)

\* C8: a bug_fix card generated with observedBehavior, expectedBehavior and
\* stepsToReproduce set and every other field at its default has the root
\* attribute type="bug_fix", holds each of the three values as the exact and only
\* content of its element, with no added whitespace, and holds the urgency element
\* with level="3" and the text 'Normal'.  Stated of every bug_fix page of the
\* repository.
C8_MinimalBugFixCard == MinimalBugFix => MinimalBugFixCard

\* C8, of the bug_fix page of src/pages/bug_fix.tsx lines 1-633 alone.
C8_CurrentPageMinimalCard == (MinimalBugFix /\ page = "bug_fix") => MinimalBugFixCard

\* a minimal card rendered by an earlier bug_fix page
C8_Witness == MinimalBugFix /\ page = "bug_fix_v1"

---------------------------------------------------------------------------
(* The claims about a session, checked under Spec.                         *)

PostReset ==
  /\ formData = defaultFormData(page)
  /\ xmlOutput = << >>
  /\ copied = FALSE

\* C9: reset is idempotent with respect to rendering: after any edits and
\* generates, the card rendered from the field values resetForm leaves is the
\* card rendered from the initial field values, and a resetForm that follows a
\* resetForm changes nothing.
C9_ResetIdempotent ==
  [][resetForm =>
       /\ generateXML(page, formData') = generateXML(page, defaultFormData(page))
       /\ PostReset'
       /\ PostReset => UNCHANGED vars]_vars

\* a generate was made from edited fields and the form has been reset since
C9_Witness ==
  /\ recorded # << >>
  /\ recorded.input # defaultFormData(page)
  /\ PostReset

\* C10: after resetForm all state of the page equals its initial value: every
\* field at its declared default, no rendered card, the copied indicator false,
\* and every advanced section expanded or collapsed as at page load.
C10_ResetRestoresAllState ==
  [][resetForm =>
       (PostReset' /\ advancedSections' = initialAdvancedSections(page))]_vars

\* the form has been reset after a generate, and a section is still expanded
C10_Witness ==
  /\ recorded # << >>
  /\ PostReset
  /\ advancedSections # initialAdvancedSections(page)


\* C13: whenever export is offered, the string a download delivers and the string
\* a copy hands to the clipboard are the same string, the card on display, and it
\* is the output of the most recent generate: edits made after that generate are
\* in neither.
C13_ExportsDeliverLastGenerate ==
  [][/\ downloaded' # downloaded =>
          /\ downloaded'.content = xmlOutput
          /\ downloaded'.content = generateXML(page, generatedFrom)
     /\ Len(pendingWrites') > Len(pendingWrites) =>
          /\ pendingWrites'[Len(pendingWrites')] = xmlOutput
          /\ pendingWrites'[Len(pendingWrites')] = generateXML(page, generatedFrom)
     /\ clipboard' # clipboard =>
          \E i \in 1..Len(pendingWrites) : clipboard' = pendingWrites[i]]_vars

\* the card was downloaded and copied after the fields it was generated from
\* had been edited
C13_Witness ==
  /\ xmlOutput # << >>
  /\ formData # generatedFrom
  /\ downloaded # << >>
  /\ downloaded.content = xmlOutput
  /\ clipboard = xmlOutput

ExportHandlers == {"copyToClipboard", "downloadXML"}

\* C14: on every page, whenever a rendered card exists (xmlOutput is not empty)
\* both export actions, copy to clipboard and file download, are offered, and
\* neither is offered while no card exists.
C14_BothExportsOfferedWithCard ==
  page \in Forms =>
    \A h \in ExportHandlers : isOffered(h) <=> xmlOutput # << >>

\* C14, of the six pages other than cleanup.
C14_ExportsOfferedExceptCleanup ==
  (page \in Forms \ {"cleanup"}) =>
    \A h \in ExportHandlers : isOffered(h) <=> xmlOutput # << >>

\* the cleanup page with a card on display
C14_Witness ==
  /\ page = "cleanup"
  /\ xmlOutput # << >>
  /\ isOffered("copyToClipboard")
  /\ ~isOffered("downloadXML")

\* C15: when a clipboard write fails, the page shows the card as not copied: once
\* the failed write has completed the copied indicator is false, no second write
\* is attempted, and the field values and the rendered card are unchanged.
C15_FailedCopyShowsNotCopied ==
  [][(\E i \in 1..Len(pendingWrites) : writeTextRejected(i)) =>
       /\ copied' = FALSE
       /\ Len(pendingWrites') < Len(pendingWrites)
       /\ clipboard' = clipboard
       /\ formData' = formData
       /\ xmlOutput' = xmlOutput]_vars

\* C15, without the indicator: a failed write starts no other write, leaves the
\* clipboard, the fields and the card as they were, and leaves the copied
\* indicator as it was.
C15_FailedCopyChangesNothing ==
  [][(\E i \in 1..Len(pendingWrites) : writeTextRejected(i)) =>
       /\ copied' = copied
       /\ timers' = timers
       /\ Len(pendingWrites') < Len(pendingWrites)
       /\ clipboard' = clipboard
       /\ formData' = formData
       /\ xmlOutput' = xmlOutput]_vars

\* a write is in flight while the indicator of an earlier, successful copy is on
C15_Witness ==
  /\ copied
  /\ timers > 0
  /\ pendingWrites # << >>
  /\ clipboard # << >>

\* C16: generate only runs when every field marked required (the title included,
\* where the page has one) is a non-empty string, so every card the page holds
\* was produced from field values whose required fields were all non-empty.
C16_CardsHaveRequiredFields ==
  /\ xmlOutput # << >> =>
       /\ generatedFrom # << >>
       /\ xmlOutput = generateXML(page, generatedFrom)
       /\ \A f \in requiredFields(page) : generatedFrom[f] # << >>
  /\ recorded # << >> =>
       \A f \in requiredFields(page) : recorded.input[f] # << >>

\* a card is held by a page that has a title field, and since the card was
\* generated the form was not reset
C16_Witness ==
  /\ xmlOutput # << >>
  /\ "punchcardTitle" \in requiredFields(page)
  /\ generatedFrom.punchcardTitle = XFails
  /\ recorded # << >>

\* C17: in every state reachable through the operations of a page (rating
\* buttons, text edits, checkbox changes, generate, copy, download, reset, section
\* toggles) every rating field holds an integer in 1..5, so the label looked up
\* for a rating field is never undefined in a rendered card.
C17_RatingsStayInRange ==
  /\ \A f \in ratingFields(page) : formData[f] \in 1..5
  /\ generatedFrom # << >> => \A f \in ratingFields(page) : generatedFrom[f] \in 1..5
  /\ \A card \in {xmlOutput, clipboard}
                 \cup {pendingWrites[i] : i \in 1..Len(pendingWrites)}
                 \cup (IF downloaded = << >> THEN {} ELSE {downloaded.content}) :
        ~Has(card, "undefined")

\* a card rendered after a rating button was pressed, then downloaded, with the
\* form reset since
C17_Witness ==
  /\ downloaded # << >>
  /\ \E r \in ratingElements(page) :
        /\ defaultFormData(page)[r[1]] # 5
        /\ ElementIs(downloaded.content, r[2], r[3], RatingContent(r[4], 5))
  /\ PostReset

\* C20: a rendered card is never mutated after it is created: the stored card
\* changes only when generate replaces it or reset clears it; text edits, rating
\* changes, checkbox changes, section toggles, copy (begun, succeeded or failed),
\* download and the timer of the copied indicator all leave it unchanged.
C20_CardChangesOnlyByGenerateOrReset ==
  [][/\ xmlOutput' # xmlOutput =>
          \/ xmlOutput' = generateXML(page, formData) /\ formData' = formData
          \/ xmlOutput' = << >> /\ formData' = resetFormData(page)
     /\ (\/ formData' # formData /\ formData' # resetFormData(page)
         \/ advancedSections' # advancedSections
         \/ pendingWrites' # pendingWrites
         \/ clipboard' # clipboard
         \/ downloaded' # downloaded
         \/ timers' # timers) => xmlOutput' = xmlOutput]_vars

\* a card is on display that was generated from other field values than the
\* form now holds, and it has been copied and downloaded
C20_Witness ==
  /\ xmlOutput # << >>
  /\ formData # generatedFrom
  /\ xmlOutput # generateXML(page, formData)
  /\ clipboard = xmlOutput
  /\ downloaded # << >>
  /\ copied

---------------------------------------------------------------------------
(* The claims about the content of a card, checked under SpecRender.       *)

\* the pages whose template holds the documentation_requirement block
DocumentedForms == {"bug_fix", "feature_request", "testing", "security_audit"}

\* C11, as claimed: every card rendered by the current form of every one of the
\* seven card types contains a documentation_requirement block.
C11_EveryCardHasDocumentationBlock ==
  (page \in Forms /\ xmlOutput # << >>) =>
    /\ Has(xmlOutput, "<documentation_requirement>")
    /\ Has(xmlOutput, "</documentation_requirement>")

\* C11, amended: a card of bug_fix, feature_request, testing or security_audit
\* always contains the documentation_requirement block, a card of feature_change
\* contains it exactly when enableDocumentation is checked, and a card of
\* documentation or cleanup never contains it.
C11_DocumentationBlockWhereDeclared ==
  (page \in Forms /\ xmlOutput # << >>) =>
    LET present == /\ Has(xmlOutput, "<documentation_requirement>")
                   /\ Has(xmlOutput, "</documentation_requirement>")
        absent == /\ ~Has(xmlOutput, "<documentation_requirement>")
                  /\ ~Has(xmlOutput, "</documentation_requirement>")
    IN  CASE page \in DocumentedForms -> present
          [] page = "feature_change" ->
               IF formData.enableDocumentation THEN present ELSE absent
          [] OTHER -> absent

\* a feature_change card rendered with enableDocumentation unchecked
C11_Witness ==
  /\ page = "feature_change"
  /\ xmlOutput # << >>
  /\ ~formData.enableDocumentation

\* C12: a download names the file sanitizeFilename(title) + '_' + cardType +
\* '.xml' on every page that has a title field and documentation_task.xml on a
\* page without one, and the type of the file is always application/xml.
C12_DownloadNameAndType ==
  downloaded # << >> =>
    /\ downloaded.type = "application/xml"
    /\ downloaded.filename =
         IF "punchcardTitle" \in DOMAIN formData
         THEN RefSanitize(formData.punchcardTitle) \o <<"_" \o page \o ".xml">>
         ELSE <<"documentation_task.xml">>
    /\ Has(xmlOutput, "<task_card type=\"" \o page \o "\"")

\* a card of a titled page downloaded under the title 'Fix Login!!'
C12_Witness ==
  /\ page = "security_audit"
  /\ downloaded # << >>
  /\ formData.punchcardTitle = FixLoginBang
\* bug_fix: each text field rendered without a fallback: <<field, the atom before the value, the atom after it>>
rawElements_bug_fix ==
  { <<"observedBehavior", "<observed_behavior>", "</observed_behavior>">>,
    <<"expectedBehavior", "<expected_behavior>", "</expected_behavior>">>,
    <<"stepsToReproduce", "<steps_to_reproduce>", "</steps_to_reproduce>">> }

\* feature_request: each text field rendered without a fallback: <<field, the atom before the value, the atom after it>>
rawElements_feature_request ==
  { <<"goal", "<goal>", "</goal>">>,
    <<"userStory", "<user_story>", "</user_story>">> }

\* feature_change: each text field rendered without a fallback: <<field, the atom before the value, the atom after it>>
rawElements_feature_change ==
  { <<"targetFunctionality", "<target_functionality>", "</target_functionality>">>,
    <<"desiredChange", "<desired_change>", "</desired_change>">>,
    <<"reasoning", "<reasoning>", "</reasoning>">> }

\* documentation: each text field rendered without a fallback: <<field, the atom before the value, the atom after it>>
rawElements_documentation ==
  { <<"targetCode", "<target_code>", "</target_code>">>,
    <<"documentationType", "<documentation_type>", "</documentation_type>">>,
    <<"audience", "<target_audience>", "</target_audience>">> }

\* testing: each text field rendered without a fallback: <<field, the atom before the value, the atom after it>>
rawElements_testing ==
  { <<"targetCode", "<target_code>", "</target_code>">>,
    <<"testingGoal", "<testing_goal>", "</testing_goal>">>,
    <<"testTypes", "<test_types>", "</test_types>">> }

\* security_audit: each text field rendered without a fallback: <<field, the atom before the value, the atom after it>>
rawElements_security_audit ==
  { <<"targetCode", "<target_code>", "</target_code>">>,
    <<"auditScope", "<audit_scope>", "</audit_scope>">> }

\* cleanup: each text field rendered without a fallback: <<field, the atom before the value, the atom after it>>
rawElements_cleanup ==
  { <<"targetCode", "<target_code>", "</target_code>">>,
    <<"cleanupGoals", "<cleanup_goals>", "</cleanup_goals>">>,
    <<"cleanupTypes", "<cleanup_types>", "</cleanup_types>">> }

rawElements(p) ==
  CASE p = "bug_fix" -> rawElements_bug_fix
    [] p = "feature_request" -> rawElements_feature_request
    [] p = "feature_change" -> rawElements_feature_change
    [] p = "documentation" -> rawElements_documentation
    [] p = "testing" -> rawElements_testing
    [] p = "security_audit" -> rawElements_security_audit
    [] p = "cleanup" -> rawElements_cleanup

\* the text is not empty and holds whitespace only
IsBlank(s) == s # << >> /\ \A i \in 1..Len(s) : s[i] \in {" ", "\t", "\n"}

\* C18: a text field is replaced by its fallback only when it is exactly the
\* empty string: a value made of whitespace only is emitted as is and is never
\* replaced by the fallback.
C18_BlankIsNotDefaulted ==
  (page \in Forms /\ xmlOutput # << >>) =>
    \A e \in fallbackElements(page) :
       /\ ElementIs(xmlOutput, e[2], e[3], <<e[4]>>) => formData[e[1]] = << >>
       /\ IsBlank(formData[e[1]]) =>
            /\ ElementIs(xmlOutput, e[2], e[3], formData[e[1]])
            /\ ~ElementIs(xmlOutput, e[2], e[3], <<e[4]>>)

\* a card rendered with whitespace of several characters in a field that has a
\* fallback
C18_Witness ==
  /\ page \in Forms
  /\ xmlOutput # << >>
  /\ \E e \in fallbackElements(page) : formData[e[1]] = <<" ", "\n", "\t">>

---------------------------------------------------------------------------
(* More claims about a session, checked under Spec.                        *)

\* C21: generate has no side effect beyond storing the new card: it leaves every
\* field value, the copied indicator, the advanced-section toggles and the
\* clipboard unchanged (and with them the writes in flight, the timers and the
\* file last downloaded).
C21_GenerateOnlyStoresCard ==
  [][onSubmit =>
       /\ xmlOutput' = generateXML(page, formData)
       /\ formData' = formData
       /\ copied' = copied
       /\ advancedSections' = advancedSections
       /\ clipboard' = clipboard
       /\ pendingWrites' = pendingWrites
       /\ timers' = timers
       /\ downloaded' = downloaded]_vars

\* a card generated while the copied indicator of another card was on: the card
\* on display is not the card in the clipboard
C21_Witness ==
  /\ copied
  /\ xmlOutput # << >>
  /\ clipboard # << >>
  /\ clipboard # xmlOutput
  /\ generatedFrom = formData

\* C24: the expanded or collapsed state of the advanced sections is
\* presentational only: toggling a section changes no field value and no
\* rendered card, and a generate made with a section toggled, on field values
\* equal to those of an earlier generate made with the sections as mounted,
\* yields the same card, advanced_config block included.
C24_SectionsArePresentational ==
  [][/\ advancedSections' # advancedSections =>
          /\ formData' = formData
          /\ xmlOutput' = xmlOutput
          /\ generateXML(page, formData') = generateXML(page, formData)
     /\ (/\ onSubmit
         /\ recorded # << >>
         /\ recorded.input = formData
         /\ advancedSections # initialAdvancedSections(page)) =>
          /\ xmlOutput' = recorded.card
          /\ Has(xmlOutput', "<advanced_config>")
          /\ Has(xmlOutput', "</advanced_config>")]_vars

\* a generate was remembered with the sections as mounted, and a later generate
\* on equal field values was made with a section toggled
C24_Witness ==
  /\ recorded # << >>
  /\ recorded.again # << >>
  /\ recorded.again[2]
  /\ advancedSections # initialAdvancedSections(page)
  /\ xmlOutput = recorded.card

---------------------------------------------------------------------------
(* More claims about the content of a card, checked under SpecRender.      *)

RefLegendLines ==
  <<"Level 1: Task title, one-line summary, files changed (bullet list)",
    "Level 2: Above + brief problem/solution description",
    "Level 3: Above + key decisions made, testing notes",
    "Level 4: Above + detailed reasoning, edge cases considered, related issues",
    "Level 5: Above + full context, alternative approaches considered, future considerations">>

\* the five lines of the legend, each on a line of its own behind the indentation
\* ind, and the indentation of the closing tag
RefLegend(ind, last) ==
  "\n" \o ind \o RefLegendLines[1] \o "\n" \o ind \o RefLegendLines[2]
       \o "\n" \o ind \o RefLegendLines[3] \o "\n" \o ind \o RefLegendLines[4]
       \o "\n" \o ind \o RefLegendLines[5] \o "\n" \o last

\* the legend as the page indents it
RefLegendOf(p) ==
  IF p = "bug_fix" THEN RefLegend("            ", "        ")
  ELSE RefLegend("      ", "    ")

HasLegend(card, p) == ElementIs(card, "<format>", "</format>", <<RefLegendOf(p)>>)

\* C22, as claimed: for every card type whose template declares a documentation
\* block, the fixed 5-line format legend (Level 1 .. Level 5) appears in every
\* rendered card, for every assignment of field values.
C22_LegendInEveryCard ==
  (page \in DocumentedForms \cup {"feature_change"} /\ xmlOutput # << >>) =>
    HasLegend(xmlOutput, page)

\* C22, amended: the legend appears, the same five lines whatever the field
\* values, in every card that holds the documentation block, that is in every
\* card of bug_fix, feature_request, testing and security_audit and in the cards
\* of feature_change rendered with enableDocumentation checked; a feature_change
\* card rendered with it unchecked has no legend.
C22_LegendWithBlock ==
  (page \in Forms /\ xmlOutput # << >>) =>
    /\ Has(xmlOutput, "<documentation_requirement>") <=> HasLegend(xmlOutput, page)
    /\ page \in DocumentedForms => HasLegend(xmlOutput, page)
    /\ page = "feature_change" =>
         IF formData.enableDocumentation
         THEN HasLegend(xmlOutput, page)
         ELSE ~Has(xmlOutput, "<format>") /\ ~Has(xmlOutput, "</format>")

\* a titled feature_change card rendered without the block, so without the legend
C22_Witness ==
  /\ page = "feature_change"
  /\ xmlOutput # << >>
  /\ ~formData.enableDocumentation
  /\ formData.punchcardTitle = AddUserDashboard
  /\ ~Has(xmlOutput, "<format>")

\* bug_fix: each boolean field rendered as a token: <<field, the atom before the token, the atom after it, the token for true, the token for false>>
boolElements_bug_fix ==
  { <<"includeComments", "<include_comments>", "</include_comments>", "Yes", "No">>,
    <<"generateTypes", "<generate_types>", "</generate_types>", "Yes", "No">>,
    <<"updateDocs", "<update_docs>", "</update_docs>", "Yes", "No">>,
    <<"createChangelog", "<create_changelog>", "</create_changelog>", "Yes", "No">> }

\* feature_request: each boolean field rendered as a token: <<field, the atom before the token, the atom after it, the token for true, the token for false>>
boolElements_feature_request ==
  { <<"darkModeSupport", "<dark_mode_support>", "</dark_mode_support>", "Yes", "No">>,
    <<"lazyLoading", "<lazy_loading>", "</lazy_loading>", "Yes", "No">>,
    <<"optimisticUpdates", "<optimistic_updates>", "</optimistic_updates>", "Yes", "No">>,
    <<"infiniteScroll", "<infinite_scroll>", "</infinite_scroll>", "Yes", "No">>,
    <<"featureFlags", "<feature_flags>", "</feature_flags>", "Yes", "No">>,
    <<"abTesting", "<ab_testing>", "</ab_testing>", "Yes", "No">> }

\* feature_change: each boolean field rendered as a token: <<field, the atom before the token, the atom after it, the token for true, the token for false>>
boolElements_feature_change ==
  { <<"breakingChangesOk", "<breaking_changes_allowed>", "</breaking_changes_allowed>", "Yes - breaking changes are acceptable", "No - maintain backward compatibility">>,
    <<"gradualRollout", "<gradual_rollout>", "</gradual_rollout>", "Yes", "No">>,
    <<"deadCodeRemoval", "<dead_code_removal>", "</dead_code_removal>", "Yes", "No">>,
    <<"extractComponents", "<extract_components>", "</extract_components>", "Yes", "No">>,
    <<"consolidateDuplicates", "<consolidate_duplicates>", "</consolidate_duplicates>", "Yes", "No">>,
    <<"improveNaming", "<improve_naming>", "</improve_naming>", "Yes", "No">>,
    <<"snapshotUpdates", "<snapshot_updates>", "</snapshot_updates>", "Yes - update snapshots", "No">> }

\* documentation: each boolean field rendered as a token: <<field, the atom before the token, the atom after it, the token for true, the token for false>>
boolElements_documentation ==
  { <<"includeOverview", "<include_overview>", "</include_overview>", "Yes", "No">>,
    <<"includeInstallation", "<include_installation>", "</include_installation>", "Yes", "No">>,
    <<"includeQuickStart", "<include_quick_start>", "</include_quick_start>", "Yes", "No">>,
    <<"includeApiReference", "<include_api_reference>", "</include_api_reference>", "Yes", "No">>,
    <<"includeExamples", "<include_examples>", "</include_examples>", "Yes", "No">>,
    <<"tableOfContents", "<table_of_contents>", "</table_of_contents>", "Yes", "No">>,
    <<"paramDescriptions", "<param_descriptions>", "</param_descriptions>", "Yes", "No">>,
    <<"returnTypes", "<return_types>", "</return_types>", "Yes", "No">>,
    <<"throwsDocumentation", "<throws_documentation>", "</throws_documentation>", "Yes", "No">>,
    <<"deprecationNotes", "<deprecation_notes>", "</deprecation_notes>", "Yes", "No">>,
    <<"includeEdgeCases", "<include_edge_cases>", "</include_edge_cases>", "Yes", "No">>,
    <<"includeErrorHandling", "<include_error_handling>", "</include_error_handling>", "Yes", "No">>,
    <<"runableExamples", "<runable_examples>", "</runable_examples>", "Yes", "No">>,
    <<"testableExamples", "<testable_examples>", "</testable_examples>", "Yes", "No">>,
    <<"openApiSpec", "<openapi_spec>", "</openapi_spec>", "Yes", "No">>,
    <<"postmanCollection", "<postman_collection>", "</postman_collection>", "Yes", "No">>,
    <<"changelogIntegration", "<changelog_integration>", "</changelog_integration>", "Yes", "No">>,
    <<"autoGenerateFromTypes", "<auto_generate_from_types>", "</auto_generate_from_types>", "Yes", "No">>,
    <<"linkToSourceCode", "<link_to_source_code>", "</link_to_source_code>", "Yes", "No">>,
    <<"lastUpdatedTimestamp", "<last_updated_timestamp>", "</last_updated_timestamp>", "Yes", "No">> }

\* testing: each boolean field rendered as a token: <<field, the atom before the token, the atom after it, the token for true, the token for false>>
boolElements_testing ==
  { <<"describeBlockStructure", "<describe_block_structure>", "</describe_block_structure>", "Yes", "No">>,
    <<"arrangeActAssert", "<arrange_act_assert>", "</arrange_act_assert>", "Yes", "No">>,
    <<"serviceIsolation", "<service_isolation>", "</service_isolation>", "Yes", "No">>,
    <<"transactionRollback", "<transaction_rollback>", "</transaction_rollback>", "Yes", "No">>,
    <<"headlessMode", "<headless_mode>", "</headless_mode>", "Yes", "No">>,
    <<"screenshotOnFailure", "<screenshot_on_failure>", "</screenshot_on_failure>", "Yes", "No">>,
    <<"videoRecording", "<video_recording>", "</video_recording>", "Yes", "No">>,
    <<"spyFunctions", "<spy_functions>", "</spy_functions>", "Yes", "No">>,
    <<"stubExternalCalls", "<stub_external_calls>", "</stub_external_calls>", "Yes", "No">>,
    <<"mockTimers", "<mock_timers>", "</mock_timers>", "Yes", "No">>,
    <<"branchCoverage", "<branch_coverage>", "</branch_coverage>", "Yes", "No">>,
    <<"lineCoverage", "<line_coverage>", "</line_coverage>", "Yes", "No">>,
    <<"functionCoverage", "<function_coverage>", "</function_coverage>", "Yes", "No">>,
    <<"parallelTests", "<parallel_tests>", "</parallel_tests>", "Yes", "No">>,
    <<"retryFlaky", "<retry_flaky_tests>", "</retry_flaky_tests>", "Yes", "No">>,
    <<"failFast", "<fail_fast>", "</fail_fast>", "Yes", "No">> }

\* security_audit: each boolean field rendered as a token: <<field, the atom before the token, the atom after it, the token for true, the token for false>>
boolElements_security_audit ==
  { <<"checkInjection", "<injection_attacks>", "</injection_attacks>", "Check", "Skip">>,
    <<"checkXss", "<xss_vulnerabilities>", "</xss_vulnerabilities>", "Check", "Skip">>,
    <<"checkCsrf", "<csrf_protection>", "</csrf_protection>", "Check", "Skip">>,
    <<"checkAuth", "<authentication_issues>", "</authentication_issues>", "Check", "Skip">>,
    <<"checkCrypto", "<cryptographic_failures>", "</cryptographic_failures>", "Check", "Skip">>,
    <<"checkDataExposure", "<sensitive_data_exposure>", "</sensitive_data_exposure>", "Check", "Skip">>,
    <<"checkSensitiveLogging", "<sensitive_logging>", "</sensitive_logging>", "Check", "Skip">>,
    <<"checkEncryption", "<encryption_at_rest_transit>", "</encryption_at_rest_transit>", "Check", "Skip">>,
    <<"checkPii", "<pii_handling>", "</pii_handling>", "Check", "Skip">>,
    <<"checkSecretManagement", "<secret_management>", "</secret_management>", "Check", "Skip">>,
    <<"checkRbac", "<rbac_implementation>", "</rbac_implementation>", "Check", "Skip">>,
    <<"checkPrivilegeEscalation", "<privilege_escalation>", "</privilege_escalation>", "Check", "Skip">>,
    <<"checkSessionManagement", "<session_management>", "</session_management>", "Check", "Skip">>,
    <<"checkApiSecurity", "<api_security>", "</api_security>", "Check", "Skip">>,
    <<"checkInputValidation", "<input_validation>", "</input_validation>", "Check", "Skip">>,
    <<"checkDependencies", "<dependency_vulnerabilities>", "</dependency_vulnerabilities>", "Check", "Skip">>,
    <<"checkConfig", "<security_configuration>", "</security_configuration>", "Check", "Skip">>,
    <<"checkHeaders", "<security_headers>", "</security_headers>", "Check", "Skip">>,
    <<"checkCors", "<cors_policy>", "</cors_policy>", "Check", "Skip">>,
    <<"checkTls", "<tls_configuration>", "</tls_configuration>", "Check", "Skip">>,
    <<"owaspTop10", "<owasp_top_10>", "</owasp_top_10>", "Apply", "Skip">>,
    <<"sansTop25", "<sans_top_25>", "</sans_top_25>", "Apply", "Skip">>,
    <<"gdprCompliance", "<gdpr_compliance>", "</gdpr_compliance>", "Apply", "Skip">>,
    <<"hipaaCompliance", "<hipaa_compliance>", "</hipaa_compliance>", "Apply", "Skip">>,
    <<"pciDss", "<pci_dss>", "</pci_dss>", "Apply", "Skip">>,
    <<"includeCwe", "<include_cwe_references>", "</include_cwe_references>", "Yes", "No">>,
    <<"includeCvss", "<include_cvss_scores>", "</include_cvss_scores>", "Yes", "No">>,
    <<"includeRemediation", "<include_remediation_steps>", "</include_remediation_steps>", "Yes", "No">>,
    <<"prioritizeBySeverity", "<prioritize_by_severity>", "</prioritize_by_severity>", "Yes", "No">> }

\* cleanup: each boolean field rendered as a token: <<field, the atom before the token, the atom after it, the token for true, the token for false>>
boolElements_cleanup ==
  { <<"removeUnusedImports", "<remove_unused_imports>", "</remove_unused_imports>", "Yes", "No">>,
    <<"removeUnusedVariables", "<remove_unused_variables>", "</remove_unused_variables>", "Yes", "No">>,
    <<"removeUnusedFunctions", "<remove_unused_functions>", "</remove_unused_functions>", "Yes", "No">>,
    <<"removeUnreachableCode", "<remove_unreachable_code>", "</remove_unreachable_code>", "Yes", "No">>,
    <<"removeDeprecatedCode", "<remove_deprecated_code>", "</remove_deprecated_code>", "Yes", "No">>,
    <<"consistentIndentation", "<consistent_indentation>", "</consistent_indentation>", "Yes", "No">>,
    <<"trailingWhitespace", "<trailing_whitespace>", "</trailing_whitespace>", "Remove", "Keep">>,
    <<"simplifyConditionals", "<simplify_conditionals>", "</simplify_conditionals>", "Yes", "No">>,
    <<"extractMagicNumbers", "<extract_magic_numbers>", "</extract_magic_numbers>", "Yes", "No">>,
    <<"removeNestedTernaries", "<remove_nested_ternaries>", "</remove_nested_ternaries>", "Yes", "No">>,
    <<"flattenCallbacks", "<flatten_callbacks>", "</flatten_callbacks>", "Yes", "No">>,
    <<"consolidateDuplicates", "<consolidate_duplicates>", "</consolidate_duplicates>", "Yes", "No">>,
    <<"removeUnusedDeps", "<remove_unused_deps>", "</remove_unused_deps>", "Yes", "No">>,
    <<"updateOutdatedDeps", "<update_outdated_deps>", "</update_outdated_deps>", "Yes", "No">>,
    <<"consolidateSimilarDeps", "<consolidate_similar_deps>", "</consolidate_similar_deps>", "Yes", "No">>,
    <<"removePeerDepWarnings", "<remove_peer_dep_warnings>", "</remove_peer_dep_warnings>", "Yes", "No">>,
    <<"auditVulnerabilities", "<audit_vulnerabilities>", "</audit_vulnerabilities>", "Yes", "No">>,
    <<"removeCommentedCode", "<remove_commented_code>", "</remove_commented_code>", "Yes", "No">>,
    <<"updateStaleComments", "<update_stale_comments>", "</update_stale_comments>", "Yes", "No">>,
    <<"removeObviousComments", "<remove_obvious_comments>", "</remove_obvious_comments>", "Yes", "No">>,
    <<"standardizeTodoFormat", "<standardize_todo_format>", "</standardize_todo_format>", "Yes", "No">>,
    <<"documentRemainingTodos", "<document_remaining_todos>", "</document_remaining_todos>", "Yes", "No">>,
    <<"removeEmptyFiles", "<remove_empty_files>", "</remove_empty_files>", "Yes", "No">>,
    <<"consolidateConfigs", "<consolidate_configs>", "</consolidate_configs>", "Yes", "No">>,
    <<"organizeImports", "<organize_imports>", "</organize_imports>", "Yes", "No">>,
    <<"removeBackupFiles", "<remove_backup_files>", "</remove_backup_files>", "Yes", "No">>,
    <<"standardizeNaming", "<standardize_naming>", "</standardize_naming>", "Yes", "No">> }

boolElements(p) ==
  CASE p = "bug_fix" -> boolElements_bug_fix
    [] p = "feature_request" -> boolElements_feature_request
    [] p = "feature_change" -> boolElements_feature_change
    [] p = "documentation" -> boolElements_documentation
    [] p = "testing" -> boolElements_testing
    [] p = "security_audit" -> boolElements_security_audit
    [] p = "cleanup" -> boolElements_cleanup

\* the cards a and b are equal but for the one atom that follows the atom open
DifferOnlyAfter(a, b, open) ==
  /\ Len(a) = Len(b)
  /\ \E i \in 2..Len(a) :
        /\ a[i - 1] = open
        /\ a[i] # b[i]
        /\ \A j \in 1..Len(a) : j # i => a[j] = b[j]

\* the boolean field b is rendered as its token, and the card rendered with b
\* inverted differs in that token only
RendersAsToken(b) ==
  \E e \in boolElements(page) :
     /\ e[1] = b
     /\ e[4] # e[5]
     /\ \A o \in boolElements(page) : o[1] = b => o = e
     /\ ElementIs(xmlOutput, e[2], e[3], <<IF formData[b] THEN e[4] ELSE e[5]>>)
     /\ DifferOnlyAfter(xmlOutput, generateXML(page, [formData EXCEPT ![b] = ~formData[b]]),
                        e[2])

\* C23, as claimed: every boolean field renders as exactly one of the two literal
\* tokens declared for that field, the first when the value is true and the
\* second when it is false, and nothing else about the card depends on that
\* field.
C23_EveryBooleanIsAToken ==
  (page \in Forms /\ xmlOutput = generateXML(page, formData)) =>
    \A b \in boolFields(page) : RendersAsToken(b)

\* C23, amended: every boolean field other than enableDocumentation of
\* feature_change renders as exactly one of its two tokens and nothing else about
\* the card depends on it; enableDocumentation has no token, and the card holds
\* the documentation_requirement block exactly when it is true.
C23_BooleansAreTokensButOne ==
  (page \in Forms /\ xmlOutput = generateXML(page, formData)) =>
    /\ \A b \in boolFields(page) \ {"enableDocumentation"} : RendersAsToken(b)
    /\ "enableDocumentation" \in boolFields(page) =>
         /\ page = "feature_change"
         /\ \A e \in boolElements(page) : e[1] # "enableDocumentation"
         /\ formData.enableDocumentation <=> Has(xmlOutput, "<documentation_requirement>")
         /\ Len(generateXML(page, [formData EXCEPT !.enableDocumentation = ~@]))
              # Len(xmlOutput)

\* a security_audit card rendered with a checkbox inverted, and a feature_change
\* card rendered with enableDocumentation unchecked
C23_Witness ==
  /\ xmlOutput # << >>
  /\ \/ /\ page = "security_audit"
        /\ \E b \in boolFields(page) : formData[b] # defaultFormData(page)[b]
     \/ /\ page = "feature_change"
        /\ ~formData.enableDocumentation
        /\ formData.punchcardTitle = FixLoginBang
---------------------------------------------------------------------------
(* The copied indicator and the card on display, checked under Spec.       *)

\* C25: whenever the copied indicator is true, the clipboard holds exactly the
\* card currently stored by the page: no sequence of copy, edit and generate
\* reaches a state where the indicator says copied while the current card
\* differs from what was last written to the clipboard.
C25_CopiedMeansClipboardHoldsCard ==
  copied => clipboard = xmlOutput

\* the indicator of a finished copy is on, its timer pending, over a card
\* generated after the copied one
C25_Witness ==
  /\ copied
  /\ timers > 0
  /\ pendingWrites = << >>
  /\ xmlOutput # << >>
  /\ xmlOutput = generateXML(page, formData)
  /\ clipboard # << >>
  /\ clipboard # xmlOutput

\* C26: the copied indicator is never true while no rendered card exists: under
\* every interleaving of reset with a pending clipboard write and its 2-second
\* timer, copied = true implies that the stored card is not empty.
C26_CopiedMeansCardExists ==
  copied => xmlOutput # << >>

\* a write begun before a reset has succeeded after it: the indicator is on over
\* an emptied page
C26_Witness ==
  /\ copied
  /\ timers > 0
  /\ xmlOutput = << >>
  /\ formData = resetFormData(page)
  /\ clipboard # << >>
---------------------------------------------------------------------------
(* The life of the copied indicator, checked under SpecCopy.               *)

\* C27: the copied indicator is transient: after a successful copy, with the
\* pending timers allowed to fire, the indicator eventually returns to false; it
\* is never on without a timer pending, and once false it stays false until the
\* next successful copy.
C27_IndicatorIsTransient ==
  /\ copied ~> ~copied
  /\ [](copied => timers > 0)
  /\ [][(~copied /\ copied') =>
          \E i \in 1..Len(pendingWrites) : writeTextResolved(i, MaxOverlap)]_vars

\* a copy has succeeded and its indicator has gone off again: the clipboard holds
\* the card on display, no timer is pending and no write is in flight
C27_Witness ==
  /\ ~copied
  /\ timers = 0
  /\ pendingWrites = << >>
  /\ xmlOutput # << >>
  /\ clipboard = xmlOutput

\* C28: the indicator set by a successful copy is cleared only by that copy's
\* own timer or by reset: when two copies succeed one after the other, the timer
\* started by the earlier copy does not turn the indicator off before the later
\* copy's timer fires.  The timers have one delay and fire in the order they
\* were started, so the timer of the latest copy is the one that leaves no timer
\* pending.
C28_OnlyOwnTimerClears ==
  [][(copied /\ ~copied') => (resetForm \/ timers' = 0)]_vars

\* two copies have succeeded one after the other: the indicator is on and the
\* timers of both are pending
C28_Witness ==
  /\ copied
  /\ timers = 2
  /\ clipboard # << >>
---------------------------------------------------------------------------
(* The file name and the card, checked under SpecTitle.                    *)

\* the sanitized title of a file name: the name without its '_<type>.xml'
NameTitle(name) == SubSeq(name, 1, Len(name) - 1)

\* the card's output_path is punchcards/<sanitized>.md
OutputPathIs(card, sanitizedTitle) ==
  ElementIs(card, "<output_path>", "</output_path>",
            <<"punchcards/">> \o sanitizedTitle \o <<".md">>)

\* C29: the name of a downloaded file agrees with the card inside it: on a page
\* with a title, in every reachable state the sanitized title of the download
\* file name, and of the file name shown on the export card, is the sanitized
\* title in the output_path of the stored card, also when the title is edited
\* after the card was generated.
C29_FileNameAgreesWithCard ==
  /\ (page \in TitledForms /\ Has(xmlOutput, "<output_path>")) =>
       /\ OutputPathIs(xmlOutput, NameTitle(fileNameShown(page, formData)))
       /\ OutputPathIs(xmlOutput, NameTitle(downloadFilename(page, formData)))
  /\ (page \in TitledForms /\ downloaded # << >>
        /\ Has(downloaded.content, "<output_path>")) =>
       OutputPathIs(downloaded.content, NameTitle(downloaded.filename))

\* a card was downloaded after its title was changed: the file is named after
\* the new title and holds the card generated from the old one
C29_Witness ==
  /\ page \in TitledForms
  /\ downloaded # << >>
  /\ downloaded.content = xmlOutput
  /\ downloaded.filename = downloadFilename(page, formData)
  /\ Has(xmlOutput, "<output_path>")
  /\ OutputPathIs(xmlOutput, sanitizeFilename(generatedFrom.punchcardTitle))
  /\ sanitizeFilename(generatedFrom.punchcardTitle) # sanitizeFilename(formData.punchcardTitle)
---------------------------------------------------------------------------
(* sanitizeFilename applied to its own result, checked under SpecSanitize. *)

\* the underscores of a name deleted
WithoutUnderscores(name) == SelectSeq(name, LAMBDA c : c # "_")

\* C30, as claimed: sanitizeFilename is idempotent: for every title t,
\* sanitizeFilename(sanitizeFilename(t)) = sanitizeFilename(t): a name that is
\* already sanitized, its underscores included, passes through unchanged.
C30_SanitizeIsIdempotent ==
  sanitized # << >> => sanitizeFilename(sanitized[1]) = sanitized[1]

\* C30, amended: sanitizing a sanitized name deletes its underscores, and gives
\* 'untitled' when nothing is left; a sanitized name passes through unchanged
\* exactly when it has no underscore.
C30_SecondPassDeletesUnderscores ==
  sanitized # << >> =>
    /\ sanitizeFilename(sanitized[1]) =
         IF WithoutUnderscores(sanitized[1]) = << >>
         THEN <<"u", "n", "t", "i", "t", "l", "e", "d">>
         ELSE WithoutUnderscores(sanitized[1])
    /\ sanitizeFilename(sanitized[1]) = sanitized[1]
         <=> \A i \in 1..Len(sanitized[1]) : sanitized[1][i] # "_"

\* 'Fix Login' has been sanitized to 'fix_login', which sanitizes to 'fixlogin'
C30_Witness ==
  /\ sanitized # << >>
  /\ title = FixLogin
  /\ sanitizeFilename(sanitized[1]) = <<"f", "i", "x", "l", "o", "g", "i", "n">>
=============================================================================
